---- MODULE Spec2Model ----
(***************************************************************************)
(* A model of akashic-mj-core: the wall (Shan), the round state machine    *)
(* (Game) driven synchronously as Game.do_sync drives it, and the          *)
(* asynchronous driver of Game (reply / next / stop / start / timers).     *)
(*                                                                         *)
(* Three specifications share the variables:                               *)
(*   SpecShan   calls of the public operations of one Shan, in any order   *)
(*   Spec       a game played by Game.do_sync                              *)
(*   SpecAsync  the asynchronous driver (SpecAsyncFair adds fairness of    *)
(*              the timers)                                                *)
(***************************************************************************)
EXTENDS Integers, Sequences, FiniteSets, TLC

VARIABLES
    rule,       \* Game._rule / Shan._rule: the options the model varies
    shan,       \* Shan: _pai (as a window), _baopai, _fubaopai, _weikaigang, _closed
    last,       \* history: the last call of a Shan operation and the state it met
    nGangzimo,  \* history: successful Shan.gangzimo() calls
    nKaigang,   \* history: successful Shan.kaigang() calls
    nZimo,      \* history: successful Shan.zimo() calls
    game,       \* Game: _model, _status, _hule, ... (one record, see GameNew)
    drv,        \* Game in asynchronous mode: _status, _reply, _stop, the timers
    shoupai,    \* Shoupai: _bingpai, _fulou, _zimo, _lizhi of one hand
    he,         \* He: _pai and _find of one discard pile
    nFulou,     \* history: the melds each seat made in the round (_fulou.length)
    board       \* Board: defen, lizhibang, shan.paishu, _lizhi, _fenpei, ...

shanVars == <<shan, last, nGangzimo, nKaigang, nZimo>>
vars == <<rule, shan, last, nGangzimo, nKaigang, nZimo, game, drv, shoupai, he, nFulou, board>>

(***************************************************************************)
(* Rule (src/src/shoupai.ts, rule())                                       *)
(***************************************************************************)

\* rule(): the defaults (shoupai.ts:2523-2560) of the options the model reads.
DefaultRule ==
    [ originPoint            |-> 25000,
      gameCount              |-> 2,
      enableInterruptedGame  |-> TRUE,
      enableNagashi          |-> TRUE,
      enableNoTenDeclared    |-> FALSE,
      enableNoTenPenalty     |-> TRUE,
      maxSimultaneousWin     |-> 2,
      consecutiveMode        |-> 2,
      enableTobiEnd          |-> TRUE,
      enableOralasStopped    |-> TRUE,
      extensionMode          |-> 1,
      enableUradora          |-> TRUE,
      enableKandora          |-> TRUE,
      enableKanUra           |-> TRUE,
      enableKandoraAfterRide |-> TRUE,
      enableIppatsu          |-> TRUE,
      enableRiichiWithoutTurn |-> FALSE,
      enableYakumanComposite |-> TRUE,
      enableCountYakuman     |-> TRUE,
      enableRoundUpMangan    |-> FALSE ]

\* The rules of the walls of SpecShan: rule({enableKandora, enableUradora,
\* enableKanUra}) in every combination.
ShanRules ==
    { [ DefaultRule EXCEPT !.enableKandora = kd, !.enableUradora = ud,
                           !.enableKanUra = ku ] :
        kd \in BOOLEAN, ud \in BOOLEAN, ku \in BOOLEAN }

(***************************************************************************)
(* Shan (src/src/shan.ts)                                                  *)
(***************************************************************************)

\* Tiles of a wall: 4 each of 9+9+9+7 kinds (shan.ts:38-50).
NPai == 136
\* Tiles of the dead wall (shan.ts:154).
NWangpai == 14
\* _baopai.length at which gangzimo() throws (shan.ts:119).
MaxBaopai == 5

\* The entry gangzimo() pushes to _baopai when kan-dora is disabled: "".
Blank == 0 - 1

\* _pai only ever loses its first element (shift) or its last (pop), so it is
\* kept as the window [head, head + len) of the shuffled wall: the element at
\* index i of _pai is the tile that was at index head + i after construction.
PaiAt(s, i) == s.head + i

\* new Shan(rule) that takes the first ura-dora indicator from the slot next
\* to the first dora indicator.
ShanNewInterleaved(r) ==
    [ head       |-> 0,
      len        |-> NPai,
      baopai     |-> << 4 >>,
      fubaopai   |-> IF r.enableUradora THEN << 5 >> ELSE << >>,
      weikaigang |-> FALSE,
      closed     |-> FALSE ]

\* new Shan(rule) (shan.ts:33-61). An empty fubaopai stands for null: the
\* array, when there is one, is never empty.
ShanNew(r) ==
    [ head       |-> 0,
      len        |-> NPai,
      baopai     |-> << 4 >>,
      fubaopai   |-> IF r.enableUradora THEN << 9 >> ELSE << >>,
      weikaigang |-> FALSE,
      closed     |-> FALSE ]

\* get paishu (shan.ts:153-155)
Paishu(s) == s.len - NWangpai

\* get baopai that does not filter the "" entries.
BaopaiAll(s) == s.baopai

\* get baopai (shan.ts:161-163): the entries that are not "".
Baopai(s) == SelectSeq(s.baopai, LAMBDA x : x # Blank)

\* get fubaopai that does not look at _closed.
FubaopaiOpen(s) == s.fubaopai

\* get fubaopai (shan.ts:170-176): null (<< >>) before close().
Fubaopai(s) == IF ~s.closed THEN << >> ELSE s.fubaopai

\* zimo() without the check of paishu.
ShanZimoNoFloor(s) ==
    IF s.closed \/ s.weikaigang
    THEN [ ok |-> FALSE, shan |-> s, p |-> Blank ]
    ELSE [ ok   |-> TRUE,
           shan |-> [ s EXCEPT !.len = @ - 1 ],
           p    |-> PaiAt(s, s.len - 1) ]

\* zimo() (shan.ts:103-108). ok = FALSE: the call throws, the wall is as it was.
ShanZimo(s) ==
    IF s.closed \/ Paishu(s) = 0 \/ s.weikaigang
    THEN [ ok |-> FALSE, shan |-> s, p |-> Blank ]
    ELSE [ ok   |-> TRUE,
           shan |-> [ s EXCEPT !.len = @ - 1 ],
           p    |-> PaiAt(s, s.len - 1) ]

\* gangzimo() that forgets the "" it pushes to _baopai when kan-dora is disabled.
ShanGangzimoNoBlank(s, r) ==
    IF s.closed \/ Paishu(s) = 0 \/ s.weikaigang \/ Len(s.baopai) = MaxBaopai
    THEN [ ok |-> FALSE, shan |-> s, p |-> Blank ]
    ELSE [ ok   |-> TRUE,
           shan |-> [ s EXCEPT !.weikaigang = r.enableKandora,
                               !.head = @ + 1,
                               !.len  = @ - 1 ],
           p    |-> PaiAt(s, 0) ]

\* gangzimo() (shan.ts:115-123)
ShanGangzimo(s, r) ==
    IF s.closed \/ Paishu(s) = 0 \/ s.weikaigang \/ Len(s.baopai) = MaxBaopai
    THEN [ ok |-> FALSE, shan |-> s, p |-> Blank ]
    ELSE [ ok   |-> TRUE,
           shan |-> [ s EXCEPT !.weikaigang = r.enableKandora,
                               !.baopai = IF r.enableKandora
                                          THEN @ ELSE Append(@, Blank),
                               !.head = @ + 1,
                               !.len  = @ - 1 ],
           p    |-> PaiAt(s, 0) ]

\* kaigang() that leaves _weikaigang set.
ShanKaigangKeepsPending(s, r) ==
    IF s.closed \/ ~s.weikaigang
    THEN [ ok |-> FALSE, shan |-> s ]
    ELSE [ ok   |-> TRUE,
           shan |-> [ s EXCEPT !.baopai = Append(@, PaiAt(s, 4)),
                               !.fubaopai =
                                   IF s.fubaopai # << >> /\ r.enableKanUra
                                   THEN Append(@, PaiAt(s, 9)) ELSE @ ] ]

\* kaigang() (shan.ts:130-138)
ShanKaigang(s, r) ==
    IF s.closed \/ ~s.weikaigang
    THEN [ ok |-> FALSE, shan |-> s ]
    ELSE [ ok   |-> TRUE,
           shan |-> [ s EXCEPT !.baopai = Append(@, PaiAt(s, 4)),
                               !.fubaopai =
                                   IF s.fubaopai # << >> /\ r.enableKanUra
                                   THEN Append(@, PaiAt(s, 9)) ELSE @,
                               !.weikaigang = FALSE ] ]

\* close() that does not set _closed.
ShanCloseOpen(s) == s

\* close() (shan.ts:144-147)
ShanClose(s) == [ s EXCEPT !.closed = TRUE ]

(***************************************************************************)
(* SpecShan: one wall, its public operations called in any order           *)
(***************************************************************************)

\* What a call met: the operation, whether it returned (ok) or threw, and the
\* wall it was called on.
Met(op, ok, s) ==
    [ op |-> op, ok |-> ok, weikaigang |-> s.weikaigang, closed |-> s.closed,
      paishu |-> Paishu(s), nGangzimo |-> nGangzimo ]

\* The game record of the specifications that play no game.
NoGame == [ status |-> "" ]

\* The driver record of the specifications that run no asynchronous game.
NoDrv == [ status |-> "" ]

\* No hand: the specifications of the wall, the driver and the game hold none.
NoShoupai == [ zimo |-> << >> ]

\* new He() (he.ts:15-18): no discard, nothing to find
HeNew == [ pai |-> << >>, find |-> {}, thrown |-> FALSE ]

\* No meld made yet by any seat.
NoFulou == [ l \in 0 .. 3 |-> 0 ]

\* new Board(): no field is set yet (0, an empty list, false)
BoardNew ==
    [ qijia |-> 0, zhuangfeng |-> 0, jushu |-> 0, changbang |-> 0,
      lizhibang |-> 0, defen |-> << >>, paishu |-> 0,
      player_id |-> << >>, lunban |-> 0, lizhi |-> FALSE,
      fenpei |-> [ some |-> FALSE, v |-> << >> ] ]

InitShan ==
    /\ rule \in ShanRules
    /\ shan = ShanNew(rule)
    /\ last = [ op |-> "new", ok |-> TRUE, weikaigang |-> FALSE,
                closed |-> FALSE, paishu |-> NPai - NWangpai, nGangzimo |-> 0 ]
    /\ nGangzimo = 0
    /\ nKaigang = 0
    /\ nZimo = 0
    /\ game = NoGame
    /\ drv = NoDrv
    /\ shoupai = NoShoupai
    /\ he = HeNew
    /\ nFulou = NoFulou
    /\ board = BoardNew

CallZimo ==
    LET r == ShanZimo(shan) IN
    /\ shan' = r.shan
    /\ last' = Met("zimo", r.ok, shan)
    /\ nZimo' = IF r.ok THEN nZimo + 1 ELSE nZimo
    /\ UNCHANGED <<rule, nGangzimo, nKaigang, game, drv, shoupai, he, nFulou, board>>

CallGangzimo ==
    LET r == ShanGangzimo(shan, rule) IN
    /\ shan' = r.shan
    /\ last' = Met("gangzimo", r.ok, shan)
    /\ nGangzimo' = IF r.ok THEN nGangzimo + 1 ELSE nGangzimo
    /\ UNCHANGED <<rule, nZimo, nKaigang, game, drv, shoupai, he, nFulou, board>>

CallKaigang ==
    LET r == ShanKaigang(shan, rule) IN
    /\ shan' = r.shan
    /\ last' = Met("kaigang", r.ok, shan)
    /\ nKaigang' = IF r.ok THEN nKaigang + 1 ELSE nKaigang
    /\ UNCHANGED <<rule, nZimo, nGangzimo, game, drv, shoupai, he, nFulou, board>>

CallClose ==
    /\ shan' = ShanClose(shan)
    /\ last' = Met("close", TRUE, shan)
    /\ UNCHANGED <<rule, nZimo, nGangzimo, nKaigang, game, drv, shoupai, he, nFulou, board>>

NextShan == CallZimo \/ CallGangzimo \/ CallKaigang \/ CallClose

SpecShan == InitShan /\ [][NextShan]_vars

\* Kan draws one wall allows: _baopai starts with one entry and every kan draw
\* adds one (shan.ts:57, 119-121, 133).
MaxGang == MaxBaopai - 1

\* C9 as stated: with kan-dora enabled, zimo() and gangzimo() throw while a
\* kan draw is pending, kaigang() succeeds exactly when a kan draw is pending
\* and clears the pending state, after which zimo() and gangzimo() succeed.
C9_AsStated ==
    rule.enableKandora =>
        /\ (last.op \in {"zimo", "gangzimo"} /\ last.weikaigang => ~last.ok)
        /\ (last.op = "kaigang" => (last.ok <=> last.weikaigang))
        /\ (last.op = "kaigang" /\ last.ok =>
                /\ ~shan.weikaigang
                /\ ShanZimo(shan).ok
                /\ ShanGangzimo(shan, rule).ok)

\* C9 (amended): with kan-dora enabled, successful kan draws and reveals
\* strictly alternate (a kan draw is pending exactly when one more draw than
\* reveals succeeded); zimo() and gangzimo() throw while a kan draw is pending;
\* kaigang() succeeds exactly when a kan draw is pending and the wall is not
\* closed, and clears the pending state, after which zimo() succeeds iff live
\* tiles remain and gangzimo() succeeds iff live tiles remain and fewer than
\* four kan draws were made.
C9_Alternate ==
    rule.enableKandora =>
        /\ nGangzimo - nKaigang \in {0, 1}
        /\ (shan.weikaigang <=> nGangzimo - nKaigang = 1)
        /\ (last.op \in {"zimo", "gangzimo"} /\ last.weikaigang => ~last.ok)
        /\ (last.op = "kaigang" =>
                (last.ok <=> (last.weikaigang /\ ~last.closed)))
        /\ (last.op = "kaigang" /\ last.ok =>
                /\ ~shan.weikaigang
                /\ (ShanZimo(shan).ok <=> Paishu(shan) > 0)
                /\ (ShanGangzimo(shan, rule).ok <=>
                        (Paishu(shan) > 0 /\ nGangzimo < MaxGang)))

\* C9 witness: the second kan draw of a wall with kan-dora has been revealed.
C9_Witness ==
    /\ rule.enableKandora
    /\ last.op = "kaigang" /\ last.ok
    /\ nGangzimo = 2 /\ nKaigang = 2

\* C10: at most four kan draws succeed on one wall; a gangzimo() after four
\* throws; a gangzimo() on an open wall with live tiles, no pending reveal and
\* fewer than four kan draws succeeds; with kan-dora disabled no reveal is ever
\* pending, kaigang() always throws and baopai.length stays 1.
C10_FourGang ==
    /\ nGangzimo <= MaxGang
    /\ (last.op = "gangzimo" /\ last.nGangzimo = MaxGang => ~last.ok)
    /\ (/\ last.op = "gangzimo" /\ last.nGangzimo < MaxGang
        /\ ~last.closed /\ last.paishu > 0 /\ ~last.weikaigang
        => last.ok)
    /\ (~rule.enableKandora =>
            /\ ~shan.weikaigang
            /\ Len(Baopai(shan)) = 1
            /\ (last.op = "kaigang" => ~last.ok))

\* C10 witness: with kan-dora disabled, the fifth gangzimo() in a row threw on
\* an open wall with live tiles.
C10_Witness ==
    /\ ~rule.enableKandora
    /\ last.op = "gangzimo" /\ ~last.ok
    /\ last.nGangzimo = MaxGang /\ nZimo = 0
    /\ ~last.closed /\ last.paishu > 0

\* C11: in every reachable wall state the number of visible dora indicators
\* (baopai.length) is 1 plus the number of successful kaigang() calls and
\* never exceeds 5; it is 1 right after construction.
C11_BaopaiCount ==
    /\ Len(Baopai(shan)) = 1 + nKaigang
    /\ Len(Baopai(shan)) <= MaxBaopai
    /\ (last.op = "new" => Len(Baopai(shan)) = 1)

\* C11 witness: four kan draws, each followed by its reveal: five indicators.
C11_Witness ==
    /\ nGangzimo = 4 /\ nKaigang = 4
    /\ last.op = "kaigang" /\ last.ok
    /\ Len(Baopai(shan)) = 5

\* C12: paishu is 122 right after construction, goes down by exactly 1 on
\* every successful zimo() and gangzimo(), is left unchanged by kaigang() and
\* close(), and is never negative: zimo() and gangzimo() throw when it is 0,
\* and zimo() never hands out one of the 14 tiles of the initial dead wall.
C12_Paishu ==
    /\ [](/\ (last.op = "new" => Paishu(shan) = 122)
          /\ Paishu(shan) = 122 - nZimo - nGangzimo
          /\ Paishu(shan) >= 0)
    /\ [][/\ (last'.op \in {"zimo", "gangzimo"} /\ last'.ok =>
                  Paishu(shan') = Paishu(shan) - 1)
          /\ (last'.op \in {"kaigang", "close"} =>
                  Paishu(shan') = Paishu(shan))
          /\ (last'.op \in {"zimo", "gangzimo"} /\ Paishu(shan) = 0 =>
                  ~last'.ok /\ Paishu(shan') = 0)
          /\ (last'.op = "zimo" /\ last'.ok =>
                  ShanZimo(shan).p >= NWangpai)]_vars

\* C12 witness: the live wall is used up by draws of both kinds and a further
\* zimo() threw on the open wall.
C12_Witness ==
    /\ Paishu(shan) = 0
    /\ nZimo > 0 /\ nGangzimo > 0
    /\ last.op = "zimo" /\ ~last.ok
    /\ last.paishu = 0 /\ ~last.closed /\ ~last.weikaigang

\* C13: fubaopai is null before close(); after close() it is non-null iff
\* ura-dora is enabled, and then its length is 1 plus the number of successful
\* kaigang() calls when kan-ura is enabled and exactly 1 when it is disabled.
C13_Fubaopai ==
    /\ (~shan.closed => Fubaopai(shan) = << >>)
    /\ (shan.closed =>
            /\ (Fubaopai(shan) # << >> <=> rule.enableUradora)
            /\ (rule.enableUradora /\ rule.enableKanUra =>
                    Len(Fubaopai(shan)) = 1 + nKaigang)
            /\ (rule.enableUradora /\ ~rule.enableKanUra =>
                    Len(Fubaopai(shan)) = 1))

\* C13 witness: a wall with ura-dora and kan-ura closed after two reveals.
C13_Witness ==
    /\ shan.closed
    /\ rule.enableUradora /\ rule.enableKanUra
    /\ nKaigang = 2
    /\ Len(Fubaopai(shan)) = 3

\* C14 as stated: gangzimo() hands out the tiles initially at indices 0, 1, 2,
\* 3 in that order; the k-th visible dora indicator is the tile initially at
\* index 4, 6, 8, 10, 12 and the k-th ura-dora indicator the tile initially at
\* index 5, 7, 9, 11, 13.
C14_AsStated ==
    /\ [](/\ \A k \in 1..Len(Baopai(shan)) : Baopai(shan)[k] = 2 * k + 2
          /\ \A k \in 1..Len(Fubaopai(shan)) : Fubaopai(shan)[k] = 2 * k + 3)
    /\ [][last'.op = "gangzimo" /\ last'.ok =>
              /\ nGangzimo \in 0..3
              /\ ShanGangzimo(shan, rule).p = nGangzimo]_vars

\* C14 (amended): gangzimo() hands out the tiles initially at indices 0, 1, 2,
\* 3 in that order; the k-th visible dora indicator is the tile initially at
\* index 4, 5, 6, 7, 8 and the k-th ura-dora indicator the tile initially at
\* index 9, 10, 11, 12, 13.
C14_Layout ==
    /\ [](/\ \A k \in 1..Len(Baopai(shan)) : Baopai(shan)[k] = 3 + k
          /\ \A k \in 1..Len(Fubaopai(shan)) : Fubaopai(shan)[k] = 8 + k)
    /\ [][last'.op = "gangzimo" /\ last'.ok =>
              /\ nGangzimo \in 0..3
              /\ ShanGangzimo(shan, rule).p = nGangzimo]_vars

\* C14 witness: a closed wall shows five dora and five ura-dora indicators
\* after four kan draws.
C14_Witness ==
    /\ shan.closed
    /\ nGangzimo = 4
    /\ Len(Baopai(shan)) = 5
    /\ Len(Fubaopai(shan)) = 5

\* C15: once close() has been called every later zimo(), gangzimo() and
\* kaigang() throws and the wall stays closed; a wall operation that throws
\* leaves the tiles, the live count, the visible dora list and the pending-kan
\* flag as they were.
C15_ClosedAbsorbing ==
    [][/\ (shan.closed =>
              /\ shan'.closed
              /\ (last'.op \in {"zimo", "gangzimo", "kaigang"} => ~last'.ok))
       /\ (last'.op = "close" => shan'.closed)
       /\ (~last'.ok =>
              /\ shan'.head = shan.head /\ shan'.len = shan.len
              /\ Paishu(shan') = Paishu(shan)
              /\ Baopai(shan') = Baopai(shan)
              /\ shan'.baopai = shan.baopai
              /\ shan'.weikaigang = shan.weikaigang)]_vars

\* C15 witness: kaigang() threw on a wall that was closed while a kan draw
\* was pending, and the draw is still pending.
C15_Witness ==
    /\ last.op = "kaigang" /\ ~last.ok
    /\ last.closed /\ last.weikaigang
    /\ shan.closed /\ shan.weikaigang

(***************************************************************************)
(* Game in asynchronous mode (src/src/shoupai.ts): kaiju, reply, stop,     *)
(* start, next, call_players, delay.  The reply handlers are kept as the   *)
(* progress method each of them can schedule (Cont); what they compute is  *)
(* the subject of Spec.  A timer is a record [k, ms, tracked, to]: k is    *)
(* "next" for setTimeout(() => this.next(), ms) and "cb" for the callback  *)
(* of delay, to names the progress method of the callback, and tracked     *)
(* says that _timeout_id holds this timer.                                 *)
(***************************************************************************)

\* Broadcasts (call_players) of one run of the model.
MaxCall == 6

\* start() and a reply() for a seat whose reply is already stored are
\* called only while fewer timers than this are pending.
MaxTimers == 3

Seats == 0 .. 3

\* this._speed and this._wait as the constructor sets them.
Speed == 3

Wait == 0

\* The timeout call_players computes; kaiju and qipai pass 0, hule, pingju
\* and jieju pass _wait, the others pass nothing.
PacingTimeout(type) ==
    IF Speed = 0 THEN 0
    ELSE IF type \in {"kaiju", "qipai"} THEN 0
    ELSE IF type \in {"hule", "pingju", "jieju"} THEN Wait
    ELSE Speed * 200

\* The timeout delay computes; zero says that the caller passed 0.
DelayTimeout(zero) ==
    IF Speed = 0 THEN 0
    ELSE IF zero THEN 0
    ELSE IF Speed * 200 > 500 THEN Speed * 200 ELSE 500

NextTimer(ms) == [ k |-> "next", ms |-> ms, tracked |-> TRUE, to |-> "" ]

CbTimer(to, ms) == [ k |-> "cb", ms |-> ms, tracked |-> FALSE, to |-> to ]

\* _timeout_id is overwritten: the timer it held stays pending.
Untrack(ts) == [ i \in DOMAIN ts |-> [ ts[i] EXCEPT !.tracked = FALSE ] ]

HasTracked(ts) == \E i \in DOMAIN ts : ts[i].tracked

RemoveAt(ts, i) == SubSeq(ts, 1, i - 1) \o SubSeq(ts, i + 1, Len(ts))

\* clearTimeout(this._timeout_id); this._timeout_id = undefined
ClearTimeout(ts) == SelectSeq(ts, LAMBDA t : ~t.tracked)

\* Timers run in the order of their due time, and in the order of their
\* registration when due together: a timer can run before one registered
\* earlier only if that one has a longer timeout.
CanFire(ts, i) == \A j \in 1 .. (i - 1) : ts[j].ms > ts[i].ms

\* this._reply.filter((x) => x).length
NReply(d) == Cardinality({ id \in Seats : d.reply[id] })

\* The Game after its constructor; handled, idle, ended, nCall and resumed
\* record the run: handler runs since the last broadcast (2 stands for two
\* or more), whether next() has returned for want of replies since the last
\* broadcast, whether the end-of-game callback was called, broadcasts, and
\* whether start() was called after the stop() whose callback _stop holds.
DrvNew ==
    [ status |-> "", reply |-> [ id \in Seats |-> FALSE ], stop |-> FALSE,
      timers |-> << >>, nCall |-> 0, handled |-> 0,
      idle |-> FALSE, ended |-> FALSE, resumed |-> FALSE ]

CallPlayers(d, type) ==
    [ d EXCEPT !.status = type,
               !.reply = [ id \in Seats |-> FALSE ],
               !.timers = Append(Untrack(@), NextTimer(PacingTimeout(type))),
               !.nCall = @ + 1, !.handled = 0, !.idle = FALSE ]

Delay(d, to, zero) ==
    [ d EXCEPT !.timers = Append(@, CbTimer(to, DelayTimeout(zero))) ]

\* What the reply handler of a status passes to delay: the progress method
\* and whether the timeout passed is 0.
Cont(status) ==
    CASE status = "kaiju" -> { <<"qipai", TRUE>> }
      [] status = "qipai" -> { <<"zimo", TRUE>> }
      [] status \in {"zimo", "gangzimo"} ->
            { <<"pingju", TRUE>>, <<"hule", FALSE>>, <<"gang", FALSE>>,
              <<"dapai", FALSE>>, <<"dapai", TRUE>> }
      [] status = "dapai" ->
            { <<"pingju", FALSE>>, <<"hule", FALSE>>, <<"pingju", TRUE>>,
              <<"fulou", FALSE>>, <<"zimo", TRUE>> }
      [] status = "fulou" -> { <<"gangzimo", TRUE>>, <<"dapai", TRUE>> }
      [] status = "gang" -> { <<"gangzimo", TRUE>>, <<"hule", FALSE>> }
      [] status = "hule" -> { <<"hule", FALSE>>, <<"last", TRUE>> }
      [] status = "pingju" -> { <<"last", TRUE>> }
      [] OTHER -> { }

InitAsync ==
    /\ rule = DefaultRule
    /\ shan = ShanNew(rule)
    /\ last = [ op |-> "new", ok |-> TRUE, weikaigang |-> FALSE,
                closed |-> FALSE, paishu |-> NPai - NWangpai, nGangzimo |-> 0 ]
    /\ nGangzimo = 0 /\ nKaigang = 0 /\ nZimo = 0
    /\ game = NoGame
    /\ drv = DrvNew
    /\ shoupai = NoShoupai
    /\ he = HeNew
    /\ nFulou = NoFulou
    /\ board = BoardNew

asyncRest == <<rule, shan, last, nGangzimo, nKaigang, nZimo, game, shoupai, he, nFulou, board>>

\* kaiju(): the first broadcast.
AKaiju ==
    /\ drv.status = ""
    /\ drv' = CallPlayers(drv, "kaiju")
    /\ UNCHANGED asyncRest

\* reply(id, reply), called by the agent of seat id at any time after it
\* was handed a reply callback.
AReply ==
    \E id \in Seats :
        /\ drv.nCall > 0 /\ drv.nCall < MaxCall
        /\ drv.reply[id] => Len(drv.timers) < MaxTimers
        /\ LET d1 == [ drv EXCEPT !.reply[id] = TRUE ]
           IN  drv' = IF NReply(d1) < 4 \/ HasTracked(d1.timers) THEN d1
                      ELSE [ d1 EXCEPT !.timers = Append(@, NextTimer(0)) ]
        /\ UNCHANGED asyncRest

\* stop(callback)
AStop ==
    /\ drv' = [ drv EXCEPT !.stop = TRUE, !.resumed = FALSE ]
    /\ UNCHANGED asyncRest

\* start()
AStart ==
    /\ Len(drv.timers) < MaxTimers
    /\ drv' = IF HasTracked(drv.timers)
              THEN [ drv EXCEPT !.resumed = drv.stop ]
              ELSE [ drv EXCEPT !.stop = FALSE, !.resumed = FALSE,
                                !.timers = Append(@, NextTimer(0)) ]
    /\ UNCHANGED asyncRest

\* A next() that asks for three replies only.
DrvNextThree(d) ==
    LET d1 == [ d EXCEPT !.timers = ClearTimeout(@) ]
    IN  IF NReply(d1) < 3 THEN { [ d1 EXCEPT !.idle = TRUE ] }
        ELSE IF d1.stop THEN { d1 }
        ELSE IF Cont(d1.status) = { } THEN { [ d1 EXCEPT !.ended = TRUE ] }
        ELSE { [ Delay(d1, c[1], c[2]) EXCEPT
                     !.handled = IF @ < 2 THEN @ + 1 ELSE @ ]
               : c \in Cont(d1.status) }

\* next() run by a timer.
DrvNext(d) ==
    LET d1 == [ d EXCEPT !.timers = ClearTimeout(@) ]
    IN  IF NReply(d1) < 4 THEN { [ d1 EXCEPT !.idle = TRUE ] }
        ELSE IF d1.stop THEN { d1 }
        ELSE IF Cont(d1.status) = { } THEN { [ d1 EXCEPT !.ended = TRUE ] }
        ELSE { [ Delay(d1, c[1], c[2]) EXCEPT
                     !.handled = IF @ < 2 THEN @ + 1 ELSE @ ]
               : c \in Cont(d1.status) }

AFireNext ==
    \E i \in DOMAIN drv.timers :
        /\ drv.timers[i].k = "next"
        /\ CanFire(drv.timers, i)
        /\ drv' \in DrvNext([ drv EXCEPT !.timers = RemoveAt(@, i) ])
        /\ UNCHANGED asyncRest

\* The callback of delay: a progress method.  last() broadcasts nothing and
\* calls delay(jieju, 0) or delay(qipai, 0); each other one ends in
\* call_players.
DrvCallback(d, to) ==
    IF to = "last"
    THEN { Delay(d, t, TRUE) : t \in {"jieju", "qipai"} }
    ELSE { CallPlayers(d, to) }

AFireCb ==
    \E i \in DOMAIN drv.timers :
        /\ drv.timers[i].k = "cb"
        /\ CanFire(drv.timers, i)
        /\ drv.timers[i].to # "last" => drv.nCall < MaxCall
        /\ drv' \in DrvCallback([ drv EXCEPT !.timers = RemoveAt(@, i) ],
                                drv.timers[i].to)
        /\ UNCHANGED asyncRest

AFire == AFireNext \/ AFireCb

NextAsync == AKaiju \/ AReply \/ AStop \/ AStart \/ AFireNext \/ AFireCb

SpecAsync == InitAsync /\ [][NextAsync]_vars

\* The event loop runs a timer that is due.
SpecAsyncFair == SpecAsync /\ WF_vars(AFire)

(***************************************************************************)
(* Claims on the asynchronous driver                                       *)
(***************************************************************************)

CbTimers(d) == SelectSeq(d.timers, LAMBDA t : t.k = "cb")

\* A next() that finds fewer than four replies runs no handler and changes
\* nothing but _timeout_id.
NextBlocks ==
    (AFireNext /\ NReply(drv) < 4) =>
        /\ drv' = [ drv EXCEPT !.timers = drv'.timers, !.idle = TRUE ]
        /\ CbTimers(drv') = CbTimers(drv)

C6_AsStated == drv.handled <= 1

\* C7 as stated: once start() has followed stop(), the game proceeds: next()
\* does not call the stop callback in place of the reply handler.
C7_AsStated ==
    [][ (AFireNext /\ NReply(drv) = 4 /\ drv.stop) => ~drv.resumed ]_vars

(***************************************************************************)
(* Util.hule / get_defen (src/src/util/xiangting.ts).  What the tiles of   *)
(* a winning hand decide is its value: fu and fanshu, or the number of     *)
(* yakuman (ym) with, for a yakuman with a liable seat, the direction of   *)
(* that seat (pao) and the multiple of that one yakuman (paoN).            *)
(***************************************************************************)

Zero4 == [ l \in Seats |-> 0 ]

Sum4(f) == f[0] + f[1] + f[2] + f[3]

Min2(a, b) == IF a < b THEN a ELSE b

\* Math.ceil(x / 100) * 100 for x >= 0
Ceil100(x) == ((x + 99) \div 100) * 100

RECURSIVE Pow2(_)
Pow2(n) == IF n = 0 THEN 1 ELSE 2 * Pow2(n - 1)

\* { "+": 1, "=": 2, "-": 3 }
DirOff(d) == CASE d = "+" -> 1 [] d = "=" -> 2 [] d = "-" -> 3

\* "_+=-"[(4 + lunban - l) % 4]
DirOf(lunban, l) ==
    LET k == (4 + lunban - l) % 4
    IN  CASE k = 0 -> "_" [] k = 1 -> "+" [] k = 2 -> "=" [] k = 3 -> "-"

\* The values of winning hands the model plays with.
HuleValues ==
    { [ ym |-> 0, fu |-> 30, fanshu |-> 1, pao |-> "", paoN |-> 0 ],
      [ ym |-> 0, fu |-> 30, fanshu |-> 4, pao |-> "", paoN |-> 0 ],
      [ ym |-> 0, fu |-> 25, fanshu |-> 6, pao |-> "", paoN |-> 0 ],
      [ ym |-> 1, fu |-> 0, fanshu |-> 0, pao |-> "", paoN |-> 0 ] }
    \cup { [ ym |-> 1, fu |-> 0, fanshu |-> 0, pao |-> d, paoN |-> 1 ]
           : d \in {"+", "=", "-"} }
    \cup { [ ym |-> 2, fu |-> 0, fanshu |-> 0, pao |-> d, paoN |-> 1 ]
           : d \in {"+", "-"} }

\* get_defen(fu, hupai, rongpai, param): rong is the direction flag of the
\* winning tile ("" for a self-draw), chang and lizhi are param.jicun.
GetDefen(v, menfeng, rong, chang, lizhi) ==
    LET damanguan == IF ~rule.enableYakumanComposite THEN 1 ELSE v.ym
        sh == v.fu * Pow2(2 + v.fanshu)
        base0 ==
            IF v.ym > 0 THEN 8000 * damanguan
            ELSE IF v.fanshu >= 13 /\ rule.enableCountYakuman THEN 8000
            ELSE IF v.fanshu >= 11 THEN 6000
            ELSE IF v.fanshu >= 8 THEN 4000
            ELSE IF v.fanshu >= 6 THEN 3000
            ELSE IF rule.enableRoundUpMangan /\ sh = 1920 THEN 2000
            ELSE Min2(sh, 2000)
        hasPao == v.ym > 0 /\ v.pao # ""
        baojia2 == (menfeng + DirOff(v.pao)) % 4
        base2a == 8000 * Min2(v.paoN, damanguan)
        base2 == IF rong # "" THEN base2a \div 2 ELSE base2a
        base == IF hasPao THEN base0 - base2 ELSE base0
        mult == IF menfeng = 0 THEN 6 ELSE 4
        defen2 == IF hasPao THEN base2 * mult ELSE 0
        f0 == [ l \in Seats |->
                  IF ~hasPao THEN 0
                  ELSE (IF l = menfeng THEN defen2 ELSE 0)
                       - (IF l = baojia2 THEN defen2 ELSE 0) ]
        baojia == IF base = 0 THEN baojia2 ELSE (menfeng + DirOff(rong)) % 4
        zhuangjia == Ceil100(base * 2)
        sanjia == Ceil100(base)
        defen ==
            IF rong # "" \/ base = 0 THEN Ceil100(base * mult)
            ELSE IF menfeng = 0 THEN zhuangjia * 3
            ELSE zhuangjia + sanjia * 2
        fenpei ==
            [ l \in Seats |->
                f0[l] +
                ( IF rong # "" \/ base = 0
                  THEN (IF l = menfeng
                        THEN defen + chang * 300 + lizhi * 1000 ELSE 0)
                       - (IF l = baojia THEN defen + chang * 300 ELSE 0)
                  ELSE IF l = menfeng
                       THEN defen + chang * 300 + lizhi * 1000
                  ELSE IF menfeng = 0 \/ l = 0
                       THEN 0 - (zhuangjia + chang * 100)
                  ELSE 0 - (sanjia + chang * 100) ) ]
    IN  [ defen |-> defen + defen2, fenpei |-> fenpei ]

(***************************************************************************)
(* Game (src/src/shoupai.ts), one record.  Of a hand the record keeps the  *)
(* riichi state (_lizhi); of a discard whether it is one of two winds and  *)
(* whether it declares riichi.                                             *)
(* What depends on the tiles of a hand (can this hand win, call, declare   *)
(* riichi, is it tenpai, what is it worth) is an input of the step that    *)
(* asks for it.  log is the current round's part of the record (_paipu):   *)
(* its hule and pingju entries.  via tells which branch the last reply     *)
(* handler took and whether it overrode a valid call of lower priority.    *)
(***************************************************************************)

\* Live tiles of the wall after the deal (the code leaves 70).
LiveAfterDeal == 5

\* Rounds that are played; the round after these is dealt and not played.
MaxRound == 1

\* Tiles left to draw after the deal in the rounds of SpecLizhi: four draws
\* and four kan draws.
LiveLizhi == 8

\* The seat that is dealer of the first round (kaiju's argument).
Qijias == {1}

GameRules ==
    { [ DefaultRule EXCEPT !.maxSimultaneousWin = c[1],
                           !.enableInterruptedGame = c[2] ]
      : c \in { <<1, TRUE>>, <<2, TRUE>>, <<2, FALSE>>, <<3, FALSE>> } }

NoDapai == [ k |-> "", star |-> FALSE ]

NoVia == [ by |-> "", over |-> FALSE ]

IsFeng(k) == k \in {"z1", "z2"}

\* The Game after its constructor.
GameNew(r) ==
    [ status |-> "", qijia |-> 0, zhuangfeng |-> 0, jushu |-> 0,
      changbang |-> 0, lizhibang |-> 0,
      defen |-> [ id \in Seats |-> r.originPoint ],
      player_id |-> [ l \in Seats |-> l ], lunban |-> 0,
      shan |-> ShanNew(r),
      lizhi |-> Zero4,
      n_gang |-> Zero4, diyizimo |-> FALSE, fengpai |-> FALSE,
      dapai |-> NoDapai, gang |-> "", hule |-> << >>, hule_option |-> "",
      no_game |-> FALSE, lianzhuang |-> FALSE, changbang0 |-> 0,
      fenpei |-> Zero4, max_jushu |-> 0,
      log |-> << >>, round |-> 0, via |-> NoVia, ended |-> FALSE ]

\* An exception leaves the game where it is; the model marks it.
Thrown(g) == [ g EXCEPT !.status = "error" ]

GPaishu(g) == Paishu(g.shan)

NGang(g) == Sum4(g.n_gang)

NLizhiSingle(g) == Cardinality({ l \in Seats : g.lizhi[l] = 1 })

NLizhi(g) == Cardinality({ l \in Seats : g.lizhi[l] # 0 })

\* kaiju(qijia) up to its call_players
Kaiju(g, qijia) ==
    [ g EXCEPT !.qijia = qijia,
               !.max_jushu = IF rule.gameCount = 0 THEN 0
                             ELSE rule.gameCount * 4 - 1,
               !.status = "kaiju" ]

\* The wall after the thirteen draws of each seat.
ShanDealt ==
    [ ShanNew(rule) EXCEPT
        !.len = NWangpai + (IF rule.enableRiichiWithoutTurn THEN LiveLizhi
                            ELSE LiveAfterDeal) ]

\* qipai()
Qipai(g) ==
    [ g EXCEPT !.shan = ShanDealt,
               !.round = @ + 1,
               !.player_id = [ l \in Seats |-> (g.qijia + g.jushu + l) % 4 ],
               !.lunban = 0 - 1,
               !.diyizimo = TRUE,
               !.fengpai = rule.enableInterruptedGame,
               !.dapai = NoDapai, !.gang = "",
               !.lizhi = Zero4, !.n_gang = Zero4,
               !.hule = << >>, !.hule_option = "",
               !.no_game = FALSE, !.lianzhuang = FALSE,
               !.changbang0 = g.changbang, !.fenpei = Zero4,
               !.log = << >>, !.via = NoVia,
               !.status = "qipai" ]

\* zimo() with a wall that hands out a tile and keeps its count
ZimoKeepingWall(g) ==
    LET z == ShanZimo(g.shan)
    IN  IF ~z.ok THEN Thrown(g)
        ELSE [ g EXCEPT !.lunban = (g.lunban + 1) % 4,
                        !.status = "zimo" ]

\* zimo()
Zimo(g) ==
    LET z == ShanZimo(g.shan)
    IN  IF ~z.ok THEN Thrown(g)
        ELSE [ g EXCEPT !.lunban = (g.lunban + 1) % 4,
                        !.shan = z.shan,
                        !.status = "zimo" ]

\* kaigang()
Kaigang(g) ==
    IF ~rule.enableKandora THEN [ g EXCEPT !.gang = "" ]
    ELSE LET k == ShanKaigang(g.shan, rule)
         IN  IF ~k.ok THEN Thrown(g)
             ELSE [ g EXCEPT !.gang = "", !.shan = k.shan ]

\* dapai(dapai)
Dapai(g, d) ==
    LET g1 == [ g EXCEPT
                  !.fengpai = IF g.diyizimo
                              THEN @ /\ IsFeng(d.k)
                                     /\ (g.dapai.k = "" \/ g.dapai.k = d.k)
                              ELSE FALSE,
                  !.lizhi[g.lunban] = IF d.star
                                      THEN (IF g.diyizimo THEN 2 ELSE 1)
                                      ELSE @,
                  !.dapai = d ]
        g2 == IF g.gang # "" THEN Kaigang(g1) ELSE g1
    IN  IF g2.status = "error" THEN g2 ELSE [ g2 EXCEPT !.status = "dapai" ]

\* "_-=+".indexOf(d)
FulouOff(d) == CASE d = "-" -> 1 [] d = "=" -> 2 [] d = "+" -> 3

\* fulou(fulou): m is the kind of the meld, taken by seat l
FulouKeepsFirst(g, m, l) ==
    LET lb == (g.lunban + FulouOff(DirOf(g.lunban, l))) % 4
    IN  [ g EXCEPT !.lunban = lb,
                   !.gang = IF m = "gang" THEN "daming" ELSE @,
                   !.n_gang[lb] = IF m = "gang" THEN @ + 1 ELSE @,
                   !.status = "fulou" ]

Fulou(g, m, l) ==
    LET lb == (g.lunban + FulouOff(DirOf(g.lunban, l))) % 4
    IN  [ g EXCEPT !.diyizimo = FALSE,
                   !.lunban = lb,
                   !.gang = IF m = "gang" THEN "daming" ELSE @,
                   !.n_gang[lb] = IF m = "gang" THEN @ + 1 ELSE @,
                   !.status = "fulou" ]

\* gang(gang): gk is "an" for a concealed kan, "jia" for an added one
Gang(g, gk) ==
    LET g1 == IF g.gang # "" THEN Kaigang(g) ELSE g
    IN  IF g1.status = "error" THEN g1
        ELSE [ g1 EXCEPT !.gang = gk,
                         !.n_gang[g.lunban] = @ + 1,
                         !.status = "gang" ]

\* gangzimo()
GangzimoAlwaysReveals(g) ==
    LET z == ShanGangzimo(g.shan, rule)
        g1 == [ g EXCEPT !.diyizimo = FALSE, !.shan = z.shan ]
        g2 == Kaigang(g1)
    IN  IF ~z.ok THEN Thrown(g)
        ELSE IF g2.status = "error" THEN g2
        ELSE [ g2 EXCEPT !.status = "gangzimo" ]

Gangzimo(g) ==
    LET z == ShanGangzimo(g.shan, rule)
        g1 == [ g EXCEPT !.diyizimo = FALSE, !.shan = z.shan ]
        g2 == IF ~rule.enableKandoraAfterRide \/ g.gang = "an"
              THEN Kaigang(g1) ELSE g1
    IN  IF ~z.ok THEN Thrown(g)
        ELSE IF g2.status = "error" THEN g2
        ELSE [ g2 EXCEPT !.status = "gangzimo" ]

\* The seat of player id in the current round.
SeatOf(g, id) == CHOOSE l \in Seats : g.player_id[l] = id

\* model.defen[model.player_id[l]] += this._fenpei[l] for the four seats
AddFenpei(g) ==
    [ id \in Seats |-> g.defen[id] + g.fenpei[SeatOf(g, id)] ]

\* parseBaojiaStr2Int(baojia) of hule() for the winner menfeng
ParseBaojiaStr2Int(menfeng, baojia) ==
    CASE baojia = "=" -> (menfeng + 2) % 4
      [] baojia = "-" -> (menfeng + 1) % 4
      [] baojia = "+" -> (menfeng + 3) % 4

\* hule(): v is the value Util.hule finds in the hand of the winner;
\* hupai_baojia is the baojia of the yaku under pao, -1 without one
Hule(g, v) ==
    LET g1 == IF g.status # "hule"
              THEN [ g EXCEPT
                       !.shan = ShanClose(@),
                       !.hule_option =
                           IF g.status = "gang" THEN "qianggang"
                           ELSE IF g.status = "gangzimo" THEN "lingshang"
                           ELSE "" ]
              ELSE g
        menfeng == IF g.hule # << >> THEN Head(g.hule) ELSE g.lunban
        rong == IF menfeng = g.lunban THEN "" ELSE DirOf(g.lunban, menfeng)
        h == GetDefen(v, menfeng, rong, g.changbang, g.lizhibang)
        lian == IF rule.consecutiveMode > 0 /\ menfeng = 0 THEN TRUE
                ELSE g.lianzhuang
        entry == [ type |-> "hule", name |-> "", l |-> menfeng,
                   baojia |-> IF rong # "" THEN g.lunban ELSE 0 - 1,
                   hupai_baojia |-> IF v.ym > 0 /\ v.pao # ""
                                    THEN ParseBaojiaStr2Int(menfeng, v.pao)
                                    ELSE 0 - 1,
                   changbang |-> g.changbang, lizhibang |-> g.lizhibang,
                   defen |-> h.defen, fenpei |-> h.fenpei ]
    IN  [ g1 EXCEPT !.hule = IF g.hule # << >> THEN Tail(g.hule) ELSE << >>,
                    !.lianzhuang = IF rule.gameCount = 0 THEN FALSE ELSE lian,
                    !.fenpei = h.fenpei,
                    !.log = Append(@, entry),
                    !.status = "hule" ]

\* A nagashi mangan that every other seat pays alike.
NagashiPayFlat(l, i) == IF i = l THEN 8000 ELSE 0 - 2000

\* What seat i pays or gets for the nagashi mangan of seat l.
NagashiPay(l, i) ==
    IF l = 0 /\ i = l THEN 12000
    ELSE IF l = 0 THEN 0 - 4000
    ELSE IF i = l THEN 8000
    ELSE IF i = 0 THEN 0 - 4000
    ELSE 0 - 2000

\* pingju(name, shoupai): decl are the seats whose hand shoupai gives, ten
\* the seats whose hand is tenpai, nag the seats whose discards are all
\* terminals and honours and were never called.
Pingju(g, name, decl, ten, nag) ==
    LET shown ==
            { l \in Seats :
                /\ ~(rule.enableNoTenDeclared /\ l \notin decl
                     /\ g.lizhi[l] = 0)
                /\ ~(~rule.enableNoTenPenalty
                     /\ (rule.consecutiveMode # 2 \/ l # 0)
                     /\ g.lizhi[l] = 0)
                /\ l \in ten }
        n == Cardinality(shown)
        nagashi == rule.enableNagashi /\ nag # { }
        fenpei ==
            IF name # "" THEN Zero4
            ELSE IF nagashi
            THEN [ i \in Seats |->
                     (IF 0 \in nag THEN NagashiPay(0, i) ELSE 0)
                     + (IF 1 \in nag THEN NagashiPay(1, i) ELSE 0)
                     + (IF 2 \in nag THEN NagashiPay(2, i) ELSE 0)
                     + (IF 3 \in nag THEN NagashiPay(3, i) ELSE 0) ]
            ELSE IF rule.enableNoTenPenalty /\ 0 < n /\ n < 4
            THEN [ l \in Seats |->
                     IF l \in shown THEN 3000 \div n
                     ELSE 0 - (3000 \div (4 - n)) ]
            ELSE Zero4
        name2 == IF name # "" THEN name
                 ELSE IF nagashi THEN "nagashi" ELSE "huangpai"
        lian == IF name # "" THEN TRUE
                ELSE IF rule.consecutiveMode = 3 THEN TRUE
                ELSE IF rule.consecutiveMode = 2 /\ 0 \in shown THEN TRUE
                ELSE g.lianzhuang
        entry == [ type |-> "pingju", name |-> name2, l |-> 0 - 1,
                   baojia |-> 0 - 1, hupai_baojia |-> 0 - 1,
                   changbang |-> g.changbang,
                   lizhibang |-> g.lizhibang, defen |-> 0,
                   fenpei |-> fenpei ]
    IN  [ g EXCEPT !.no_game = IF name # "" THEN TRUE ELSE @,
                   !.lianzhuang = IF rule.gameCount = 0 THEN TRUE ELSE lian,
                   !.fenpei = fenpei,
                   !.log = Append(@, entry),
                   !.status = "pingju" ]

\* The player ids in the order (qijia + i) % 4.
Ord(g, i) == (g.qijia + i) % 4

\* The first id, in that order, that holds the most points among the ids
\* of the set ids.
TopOf(g, is) ==
    Ord(g, CHOOSE i \in is :
               \A j \in is :
                   \/ g.defen[Ord(g, i)] > g.defen[Ord(g, j)]
                   \/ (g.defen[Ord(g, i)] = g.defen[Ord(g, j)] /\ i <= j))

\* jieju() that leaves the riichi sticks on the table
JiejuLeavingSticks(g) == [ g EXCEPT !.status = "jieju" ]

\* jieju()
Jieju(g) ==
    LET top == TopOf(g, Seats)
    IN  [ g EXCEPT !.defen[top] = @ + g.lizhibang * 1000,
                   !.status = "jieju" ]

\* last()
Last(g) ==
    LET js == IF ~g.lianzhuang THEN g.jushu + 1 ELSE g.jushu
        zhuangfeng == IF ~g.lianzhuang THEN g.zhuangfeng + (js \div 4)
                      ELSE g.zhuangfeng
        jushu == IF ~g.lianzhuang THEN js % 4 ELSE g.jushu
        tobi == rule.enableTobiEnd /\ \E id \in Seats : g.defen[id] < 0
        rich == { i \in Seats : g.defen[Ord(g, i)] >= 30000 }
        guanjun == IF rich = { } THEN 0 - 1 ELSE TopOf(g, rich)
        sum_jushu == zhuangfeng * 4 + jushu
        jieju ==
            \/ tobi
            \/ 15 < sum_jushu
            \/ (rule.gameCount + 1) * 4 - 1 < sum_jushu
            \/ /\ g.max_jushu < sum_jushu
               /\ \/ rule.extensionMode = 0
                  \/ rule.gameCount = 0
                  \/ guanjun >= 0
            \/ /\ g.max_jushu = sum_jushu
               /\ rule.enableOralasStopped
               /\ guanjun = g.player_id[0]
               /\ g.lianzhuang /\ ~g.no_game
        extend ==
            /\ ~(15 < sum_jushu)
            /\ ~((rule.gameCount + 1) * 4 - 1 < sum_jushu)
            /\ g.max_jushu < sum_jushu
            /\ rule.extensionMode # 0 /\ rule.gameCount # 0 /\ guanjun < 0
        g1 == [ g EXCEPT
                  !.lunban = 0 - 1,
                  !.jushu = jushu, !.zhuangfeng = zhuangfeng,
                  !.max_jushu =
                      IF extend
                      THEN @ + (IF rule.extensionMode = 3 THEN 4
                                ELSE IF rule.extensionMode = 2 THEN 1 ELSE 0)
                      ELSE @ ]
    IN  IF jieju THEN Jieju(g1) ELSE Qipai(g1)

(***************************************************************************)
(* Replies.  A reply is a record: kind is the key of the message ("" for   *)
(* an empty message, "unset" for no message yet), ok says that the hand of *)
(* the seat allows what the reply asks for (the tile-dependent part of     *)
(* allow_hule, get_gang_mianzi, get_peng_mianzi, get_chi_mianzi,           *)
(* get_dapai, allow_pingju), m is the kind of a meld ("gang", "peng",      *)
(* "chi", "an", "jia"), p the kind of a discard, star its riichi mark, lz  *)
(* the tile-dependent part of allow_lizhi.                                 *)
(***************************************************************************)

Msg(kind, ok, m) ==
    [ kind |-> kind, ok |-> ok, m |-> m, p |-> "x", star |-> FALSE,
      lz |-> FALSE ]

DapaiMsg(ok, p, star, lz) ==
    [ kind |-> "dapai", ok |-> ok, m |-> "", p |-> p, star |-> star,
      lz |-> lz ]

\* this._reply = []
NoReply == [ id \in Seats |-> Msg("unset", FALSE, "") ]

\* reply(id, reply) in arrival order, stored by arrival.
StoreByArrival(rep, id, r) ==
    LET n == Cardinality({ i \in Seats : rep[i].kind # "unset" })
    IN  [ rep EXCEPT ![n] = r ]

\* reply(id, reply): this._reply[id] = reply
Store(rep, id, r) == [ rep EXCEPT ![id] = r ]

\* The four calls of reply(), in the order of the sequence order; in gives
\* the reply of each player id.
RECURSIVE ReplyAll(_, _, _)
ReplyAll(rep, order, in) ==
    IF order = << >> THEN rep
    ELSE ReplyAll(Store(rep, Head(order), in[Head(order)]), Tail(order), in)

\* get_reply(l)
GetReply(g, rep, l) == rep[g.player_id[l]]

\* allow_hule(l), allow_hule(): _neng_rong is part of ok
AllowHule(g, r) == r.ok

\* allow_pingju()
AllowPingju(g, r) == g.diyizimo /\ rule.enableInterruptedGame /\ r.ok

\* allow_lizhi(p)
AllowLizhi(g, r) ==
    /\ g.lizhi[g.lunban] = 0
    /\ (rule.enableRiichiWithoutTurn \/ GPaishu(g) >= 4)
    /\ (~rule.enableTobiEnd \/ g.defen[g.player_id[g.lunban]] >= 1000)
    /\ r.lz

\* get_gang_mianzi(l).find(...), get_gang_mianzi().find(...)
FindGangAtEmptyWall(g, r) == r.ok /\ NGang(g) # 4

FindGangNoCap(g, r) == r.ok /\ GPaishu(g) # 0

FindGang(g, r) == r.ok /\ ~(GPaishu(g) = 0 \/ NGang(g) = 4)

\* get_peng_mianzi(l).find(...), get_chi_mianzi(l).find(...)
FindMianzi(g, r) == r.ok /\ GPaishu(g) # 0

\* reply_kaiju()
ReplyKaiju(g) == Qipai(g)

\* A reply_qipai that discards without the draw.
ReplyQipaiDapai(g) == Dapai(g, NoDapai)

\* reply_qipai()
ReplyQipai(g) == Zimo(g)

\* reply_zimo(): p is the tile get_dapai().pop() gives, v the value of the
\* hand if it wins
ReplyZimoStrict(g, rep, p, v) ==
    LET r == GetReply(g, rep, g.lunban)
        g0 == [ g EXCEPT !.via = NoVia ]
    IN  IF r.kind = "daopai" /\ AllowPingju(g, r)
        THEN Pingju(g0, "jiuzhongjiupai", {g.lunban}, { }, { })
        ELSE IF r.kind = "hule" /\ AllowHule(g, r) THEN Hule(g0, v)
        ELSE IF r.kind = "gang" /\ FindGang(g, r) THEN Gang(g0, r.m)
        ELSE IF r.kind = "dapai" /\ r.ok /\ (r.star => AllowLizhi(g, r))
        THEN Dapai(g0, [ k |-> r.p, star |-> r.star ])
        ELSE IF r.kind = "" THEN Dapai(g0, [ k |-> p, star |-> FALSE ])
        ELSE Thrown(g)

ReplyZimo(g, rep, p, v) ==
    LET r == GetReply(g, rep, g.lunban)
        g0 == [ g EXCEPT !.via = NoVia ]
    IN  IF r.kind = "daopai" /\ AllowPingju(g, r)
        THEN Pingju(g0, "jiuzhongjiupai", {g.lunban}, { }, { })
        ELSE IF r.kind = "hule" /\ AllowHule(g, r) THEN Hule(g0, v)
        ELSE IF r.kind = "gang" /\ FindGang(g, r) THEN Gang(g0, r.m)
        ELSE IF r.kind = "dapai" /\ r.ok
        THEN Dapai(g0, [ k |-> r.p, star |-> r.star /\ AllowLizhi(g, r) ])
        ELSE Dapai(g0, [ k |-> p, star |-> FALSE ])

\* The loop of reply_dapai and reply_gang that collects the winners.
RECURSIVE Rong(_, _, _, _)
Rong(g, rep, hule, i) ==
    IF i = 4 THEN hule
    ELSE LET l == (g.lunban + i) % 4
             r == GetReply(g, rep, l)
         IN  IF r.kind = "hule" /\ AllowHule(g, r)
                /\ ~(rule.maxSimultaneousWin = 1 /\ Len(hule) > 0)
             THEN Rong(g, rep, Append(hule, l), i + 1)
             ELSE Rong(g, rep, hule, i + 1)

\* The seat (lunban + i) % 4, 1 <= i <= 3, whose reply asks for a kan or a
\* pon that its hand allows; 4 if there is none.
RECURSIVE PengGang(_, _, _)
PengGang(g, rep, i) ==
    IF i = 4 THEN 4
    ELSE LET r == GetReply(g, rep, (g.lunban + i) % 4)
         IN  IF r.kind = "fulou"
                /\ \/ r.m = "gang" /\ FindGang(g, r)
                   \/ r.m = "peng" /\ FindMianzi(g, r)
             THEN i
             ELSE PengGang(g, rep, i + 1)

ChiOk(g, rep) ==
    LET r == GetReply(g, rep, (g.lunban + 1) % 4)
    IN  r.kind = "fulou" /\ r.m = "chi" /\ FindMianzi(g, r)

\* reply_dapai(): v is the value of the hand of the first winner, ten and
\* nag are as for Pingju
ReplyDapai(g, rep, v, ten, nag) ==
    LET hule == Rong(g, rep, g.hule, 1)
        g1 == [ g EXCEPT !.hule = hule ]
        pg == PengGang(g, rep, 1)
        chi == ChiOk(g, rep)
        lizhi == g.dapai.star
        g2 == IF lizhi
              THEN [ g1 EXCEPT !.defen[g.player_id[g.lunban]] = @ - 1000,
                               !.lizhibang = @ + 1 ]
              ELSE g1
        first == g.diyizimo /\ g.lunban = 3
        g3 == IF first THEN [ g2 EXCEPT !.diyizimo = FALSE ] ELSE g2
        decl == { l \in Seats : GetReply(g, rep, l).kind = "daopai" }
        Via(by, over) == [ by |-> by, over |-> over ]
    IN  IF Len(hule) = 3 /\ rule.maxSimultaneousWin = 2
        THEN Pingju([ g1 EXCEPT !.via = Via("pingju", pg < 4 \/ chi) ],
                    "sanjiahe", { hule[1], hule[2], hule[3] }, { }, { })
        ELSE IF Len(hule) > 0
        THEN Hule([ g1 EXCEPT !.via = Via("hule", pg < 4 \/ chi) ], v)
        ELSE IF lizhi /\ NLizhi(g) = 4 /\ rule.enableInterruptedGame
        THEN Pingju([ g2 EXCEPT !.via = Via("pingju", FALSE) ],
                    "sijializhi", Seats, { }, { })
        ELSE IF first /\ g.fengpai
        THEN Pingju([ g3 EXCEPT !.via = Via("pingju", FALSE) ],
                    "sifenglianda", { }, { }, { })
        ELSE IF NGang(g) = 4
                /\ (\A l \in Seats : g.n_gang[l] < 4)
                /\ rule.enableInterruptedGame
        THEN Pingju([ g3 EXCEPT !.via = Via("pingju", FALSE) ],
                    "sikaigang", { }, { }, { })
        ELSE IF GPaishu(g) = 0
        THEN Pingju([ g3 EXCEPT !.via = Via("pingju", FALSE) ],
                    "", decl, ten, nag)
        ELSE IF pg < 4
        THEN Fulou([ g3 EXCEPT !.via = Via("penggang", chi /\ pg # 1) ],
                   GetReply(g, rep, (g.lunban + pg) % 4).m,
                   (g.lunban + pg) % 4)
        ELSE IF chi
        THEN Fulou([ g3 EXCEPT !.via = Via("chi", FALSE) ], "chi",
                   (g.lunban + 1) % 4)
        ELSE Zimo([ g3 EXCEPT !.via = Via("zimo", FALSE) ])

\* reply_fulou(): p is the tile get_dapai().pop() gives
ReplyFulou(g, rep, p) ==
    LET r == GetReply(g, rep, g.lunban)
        g0 == [ g EXCEPT !.via = NoVia ]
    IN  IF g.gang # "" THEN Gangzimo(g0)
        ELSE IF r.kind = "dapai" /\ r.ok /\ ~r.star
        THEN Dapai(g0, [ k |-> r.p, star |-> FALSE ])
        ELSE Dapai(g0, [ k |-> p, star |-> FALSE ])

\* reply_gang(): v is the value of the hand of the first winner
ReplyGang(g, rep, v) ==
    LET hule == Rong(g, rep, g.hule, 1)
        g0 == [ g EXCEPT !.via = NoVia ]
    IN  IF g.gang = "an" THEN Gangzimo(g0)
        ELSE IF Len(hule) > 0 THEN Hule([ g0 EXCEPT !.hule = hule ], v)
        ELSE Gangzimo(g0)

\* A reply_hule that leaves honba and pool to the next winner.
ReplyHuleKeepsPool(g, v) ==
    LET g1 == [ g EXCEPT !.defen = AddFenpei(g), !.via = NoVia ]
    IN  IF g.hule # << >> THEN Hule(g1, v)
        ELSE Last([ g1 EXCEPT !.changbang = IF g.lianzhuang
                                            THEN g.changbang0 + 1 ELSE 0,
                              !.lizhibang = 0 ])

\* A reply_hule that counts the honba of a dealer who stays from 0.
ReplyHuleFirstHonba(g, v) ==
    LET g1 == [ g EXCEPT !.defen = AddFenpei(g), !.changbang = 0,
                         !.lizhibang = 0, !.via = NoVia ]
    IN  IF g.hule # << >> THEN Hule(g1, v)
        ELSE Last([ g1 EXCEPT !.changbang = IF g.lianzhuang THEN 1 ELSE @ ])

\* reply_hule(): v is the value of the hand of the next winner
ReplyHule(g, v) ==
    LET g1 == [ g EXCEPT !.defen = AddFenpei(g), !.changbang = 0,
                         !.lizhibang = 0, !.via = NoVia ]
    IN  IF g.hule # << >> THEN Hule(g1, v)
        ELSE Last([ g1 EXCEPT !.changbang = IF g.lianzhuang
                                            THEN g.changbang0 + 1 ELSE @ ])

\* A reply_pingju that leaves the honba counter.
ReplyPingjuSameHonba(g) ==
    Last([ g EXCEPT !.defen = AddFenpei(g), !.via = NoVia ])

\* reply_pingju()
ReplyPingju(g) ==
    Last([ g EXCEPT !.defen = AddFenpei(g), !.changbang = @ + 1,
                    !.via = NoVia ])

(***************************************************************************)
(* Spec: a game in which every broadcast is answered by the four players,  *)
(* in any order, and then handled once, as do_sync does and as next() does *)
(* once the four replies are stored.                                       *)
(***************************************************************************)

\* Orders in which the replies of the four player ids arrive.
Orders == { <<0, 1, 2, 3>>, <<2, 0, 3, 1>> }

Empty == Msg("", FALSE, "")

\* The kinds of tile a discard is drawn from: the wind matters only while
\* the four-winds draw is still possible.
Tiles(g) == IF g.fengpai /\ g.diyizimo THEN {"z1", "z2", "x"} ELSE {"x"}

V0 == [ ym |-> 0, fu |-> 30, fanshu |-> 1, pao |-> "", paoN |-> 0 ]

\* The values of the hands that win in a game of the model.
GameValues ==
    { V0, [ ym |-> 2, fu |-> 0, fanshu |-> 0, pao |-> "-", paoN |-> 1 ] }

\* The hands that are tenpai at an exhaustive draw (a hand in riichi is),
\* and the seats with a nagashi mangan.
Tens(g) == { t \in SUBSET Seats : \A l \in Seats : g.lizhi[l] # 0 => l \in t }

Nags == { { }, {0}, {2}, {0, 1}, {1, 3} }

\* What the seat in turn answers to its draw, with p and v of ReplyZimo.
ZimoInputs(g) ==
    { [ r |-> Msg("hule", TRUE, ""), p |-> "x", v |-> v ] : v \in GameValues }
    \cup { [ r |-> m, p |-> p, v |-> V0 ]
           : m \in { Empty, Msg("hule", FALSE, ""), Msg("daopai", FALSE, ""),
                     Msg("gang", FALSE, "an") },
             p \in Tiles(g) }
    \cup { [ r |-> m, p |-> "x", v |-> V0 ]
           : m \in { Msg("daopai", TRUE, ""), Msg("gang", TRUE, "an"),
                     Msg("gang", TRUE, "jia") }
                   \cup { DapaiMsg(TRUE, p, s, s)
                          : p \in Tiles(g), s \in BOOLEAN } }

\* What a seat other than the discarder answers to a discard; a chi is
\* for the next seat, and two seats cannot both hold a pair of the tile.
OtherMsgs ==
    { Empty, Msg("hule", TRUE, ""), Msg("hule", FALSE, ""),
      Msg("fulou", TRUE, "gang"), Msg("fulou", TRUE, "peng"),
      Msg("fulou", TRUE, "chi"), Msg("fulou", FALSE, "peng") }

IsPengGang(m) == m.kind = "fulou" /\ m.ok /\ m.m \in {"gang", "peng"}

DapaiVectors ==
    { a \in [ 1 .. 3 -> OtherMsgs ] :
        /\ Cardinality({ i \in 1 .. 3 : IsPengGang(a[i]) }) <= 1
        /\ \A i \in 2 .. 3 : ~(a[i].kind = "fulou" /\ a[i].m = "chi")
        /\ Cardinality({ i \in 1 .. 3 : a[i].kind # "" /\ ~a[i].ok }) <= 1 }

\* The replies by player id of a vector a of answers of the seats
\* lunban + 1 .. lunban + 3; the discarder answers own.
RepOf(g, a, own) ==
    [ id \in Seats |->
        LET i == (4 + SeatOf(g, id) - g.lunban) % 4
        IN  IF i = 0 THEN own ELSE a[i] ]

HasRong(a) == \E i \in 1 .. 3 : a[i].kind = "hule" /\ a[i].ok

DapaiInputs(g) ==
    IF GPaishu(g) # 0
    THEN UNION { { [ rep |-> RepOf(g, a, Empty), v |-> v, ten |-> { },
                       nag |-> { } ]
                     : v \in IF HasRong(a) THEN GameValues ELSE { V0 } }
                   : a \in DapaiVectors }
    ELSE { [ rep |-> RepOf(g, a, Empty), v |-> v, ten |-> { }, nag |-> { } ]
           : a \in { b \in DapaiVectors : HasRong(b) }, v \in GameValues }
         \cup { [ rep |-> RepOf(g, [ i \in 1 .. 3 |-> m ], m), v |-> V0,
                  ten |-> t, nag |-> n ]
                : m \in { Empty, Msg("daopai", TRUE, "") },
                  t \in Tens(g), n \in Nags }

GangVectors == [ 1 .. 3 -> { Empty, Msg("hule", TRUE, ""),
                             Msg("hule", FALSE, "") } ]

GangInputs(g) ==
    UNION { { [ rep |-> RepOf(g, a, Empty), v |-> v ]
              : v \in IF HasRong(a) THEN GameValues ELSE { V0 } }
            : a \in GangVectors }

InitGame ==
    /\ rule \in GameRules
    /\ shan = ShanNew(rule)
    /\ last = [ op |-> "new", ok |-> TRUE, weikaigang |-> FALSE,
                closed |-> FALSE, paishu |-> NPai - NWangpai, nGangzimo |-> 0 ]
    /\ nGangzimo = 0 /\ nKaigang = 0 /\ nZimo = 0
    /\ game = GameNew(rule)
    /\ drv = NoDrv
    /\ shoupai = NoShoupai
    /\ he = HeNew
    /\ nFulou = NoFulou
    /\ board = BoardNew

gameRest == <<rule, shan, last, nGangzimo, nKaigang, nZimo, drv, shoupai, he, nFulou, board>>

\* kaiju(qijia)
GKaiju ==
    /\ game.status = ""
    /\ \E q \in Qijias : game' = Kaiju(game, q)
    /\ UNCHANGED gameRest

GReplyKaiju ==
    /\ game.status = "kaiju"
    /\ game' = ReplyKaiju(game)
    /\ UNCHANGED gameRest

GReplyQipai ==
    /\ game.status = "qipai"
    /\ game.round <= MaxRound
    /\ game' = ReplyQipai(game)
    /\ UNCHANGED gameRest

GReplyZimo ==
    /\ game.status \in {"zimo", "gangzimo"}
    /\ \E in \in ZimoInputs(game), o \in Orders :
         game' = ReplyZimo(game,
                     ReplyAll(NoReply, o,
                         [ id \in Seats |->
                             IF id = game.player_id[game.lunban]
                             THEN in.r ELSE Empty ]),
                     in.p, in.v)
    /\ UNCHANGED gameRest

GReplyDapai ==
    /\ game.status = "dapai"
    /\ \E in \in DapaiInputs(game), o \in Orders :
         game' = ReplyDapai(game, ReplyAll(NoReply, o, in.rep),
                            in.v, in.ten, in.nag)
    /\ UNCHANGED gameRest

GReplyFulou ==
    /\ game.status = "fulou"
    /\ \E p \in Tiles(game), ok \in BOOLEAN, o \in Orders :
         game' = ReplyFulou(game,
                     ReplyAll(NoReply, o,
                         [ id \in Seats |->
                             IF id = game.player_id[game.lunban] /\ ok
                             THEN DapaiMsg(TRUE, p, FALSE, FALSE)
                             ELSE Empty ]),
                     p)
    /\ UNCHANGED gameRest

GReplyGang ==
    /\ game.status = "gang"
    /\ \E in \in GangInputs(game), o \in Orders :
         game' = ReplyGang(game, ReplyAll(NoReply, o, in.rep), in.v)
    /\ UNCHANGED gameRest

\* The hand of a later winner of the same discard is worth V0.
GReplyHule ==
    /\ game.status = "hule"
    /\ game' = ReplyHule(game, V0)
    /\ UNCHANGED gameRest

GReplyPingju ==
    /\ game.status = "pingju"
    /\ game' = ReplyPingju(game)
    /\ UNCHANGED gameRest

\* The end of do_sync, the last branch of next(): this._callback(paipu)
GCallback ==
    /\ game.status = "jieju"
    /\ ~game.ended
    /\ game' = [ game EXCEPT !.ended = TRUE ]
    /\ UNCHANGED gameRest

Next ==
    \/ GKaiju \/ GReplyKaiju \/ GReplyQipai \/ GReplyZimo \/ GReplyDapai
    \/ GReplyFulou \/ GReplyGang \/ GReplyHule \/ GReplyPingju \/ GCallback

Spec == InitGame /\ [][Next]_vars

(***************************************************************************)
(* Claims on the game                                                      *)
(***************************************************************************)

\* No step of a game throws.
NoThrow == game.status # "error"

\* What the seat i places after the discarder sent; rep is by player id.
SentBy(g, rep, i) == rep[g.player_id[(g.lunban + i) % 4]]

\* The places after the discarder whose reply is a ron the hand allows.
RonSeats(g, rep) ==
    { i \in 1 .. 3 :
        LET r == SentBy(g, rep, i) IN r.kind = "hule" /\ AllowHule(g, r) }

\* The places whose reply is a kan or a pon the hand allows.
PengGangSeats(g, rep) ==
    { i \in 1 .. 3 :
        LET r == SentBy(g, rep, i)
        IN  /\ r.kind = "fulou"
            /\ \/ r.m = "gang" /\ FindGang(g, r)
               \/ r.m = "peng" /\ FindMianzi(g, r) }

\* The reply of the next seat is a chi the hand allows.
ChiSent(g, rep) ==
    LET r == SentBy(g, rep, 1)
    IN  r.kind = "fulou" /\ r.m = "chi" /\ FindMianzi(g, r)

LastLog(g) == g.log[Len(g.log)]

\* C1: after a discard that ends in no draw, whatever the order in which the
\* four replies arrive: a valid ron of any seat sends the round to hule of a
\* seat that sent one and no call is honored; otherwise the seat with a valid
\* kan or pon melds; otherwise the next seat melds its valid chi; otherwise
\* the next seat draws.
C1_Priority ==
    game.status = "dapai" =>
        \A in \in DapaiInputs(game), o \in Orders :
            LET g2 == ReplyDapai(game, ReplyAll(NoReply, o, in.rep),
                                 in.v, in.ten, in.nag)
                ron == RonSeats(game, in.rep)
                pg == PengGangSeats(game, in.rep)
                next == (game.lunban + 1) % 4
            IN  g2.status # "pingju" =>
                    IF ron # { }
                    THEN /\ g2.status = "hule"
                         /\ g2.lunban = game.lunban
                         /\ \E i \in ron :
                                LastLog(g2).l = (game.lunban + i) % 4
                    ELSE IF pg # { }
                    THEN /\ g2.status = "fulou"
                         /\ \E i \in pg :
                              /\ g2.lunban = (game.lunban + i) % 4
                              /\ ((g2.gang = "daming") <=>
                                     (SentBy(game, in.rep, i).m = "gang"))
                    ELSE IF ChiSent(game, in.rep)
                    THEN g2.status = "fulou" /\ g2.lunban = next
                                             /\ g2.gang = ""
                    ELSE g2.status = "zimo" /\ g2.lunban = next

\* C1 witness: a ron was honored on a discard that another seat's reply
\* validly called.
C1_Witness ==
    /\ game.status = "hule"
    /\ game.via = [ by |-> "hule", over |-> TRUE ]

\* Honba counts a round can start with.
MaxChang == 1

\* C2: with max_simultaneous_win 2, three valid rons of one discard end the
\* round as the draw sanjiahe, with interrupted draws enabled or not: the
\* entry pays nothing, scores and riichi pool are as before the replies (the
\* deposit of a riichi declared with the discard is not made), and after
\* reply_pingju the pool is still there, the honba counter is one higher and
\* the next round is dealt with the same dealer.
C2_Sanjiahe ==
    (game.status = "dapai" /\ rule.maxSimultaneousWin = 2) =>
        \A in \in DapaiInputs(game), o \in Orders, c \in 0 .. MaxChang :
            LET g0 == [ game EXCEPT !.changbang = c, !.changbang0 = c ]
                g2 == ReplyDapai(g0, ReplyAll(NoReply, o, in.rep),
                                 in.v, in.ten, in.nag)
                g3 == ReplyPingju(g2)
            IN  RonSeats(g0, in.rep) = 1 .. 3 =>
                    /\ g2.status = "pingju"
                    /\ LastLog(g2).type = "pingju"
                    /\ LastLog(g2).name = "sanjiahe"
                    /\ LastLog(g2).fenpei = Zero4
                    /\ Len(g2.log) = 1
                    /\ g2.defen = g0.defen /\ g2.lizhibang = g0.lizhibang
                    /\ g3.status = "qipai"
                    /\ g3.defen = g0.defen /\ g3.lizhibang = g0.lizhibang
                    /\ g3.changbang = c + 1
                    /\ g3.jushu = g0.jushu /\ g3.zhuangfeng = g0.zhuangfeng
                    /\ g3.player_id = g0.player_id

\* C2 witness: with interrupted draws disabled, a round ended as sanjiahe
\* while a riichi stick was in the pool.
C2_Witness ==
    /\ rule.maxSimultaneousWin = 2 /\ ~rule.enableInterruptedGame
    /\ game.status = "pingju"
    /\ LastLog(game).name = "sanjiahe"
    /\ game.lizhibang = 1

\* Riichi sticks a pool can hold.
MaxLizhibang == 2

\* C3: the four fenpei of a hule entry of the record sum to 1000 times the
\* riichi sticks the entry awards, those of a pingju entry sum to 0; and so
\* do the fenpei get_defen computes for every value, winner, discarder, honba
\* count and pool, and the fenpei pingju computes for every set of tenpai
\* hands and every set of nagashi mangan.
C3_FenpeiSum ==
    /\ \A k \in 1 .. Len(game.log) :
          Sum4(game.log[k].fenpei) =
              IF game.log[k].type = "hule"
              THEN 1000 * game.log[k].lizhibang ELSE 0
    /\ game.status = "kaiju" =>
          /\ \A v \in HuleValues, menfeng \in Seats,
                rong \in {"", "+", "=", "-"},
                chang \in 0 .. MaxChang, lizhi \in 0 .. MaxLizhibang :
                Sum4(GetDefen(v, menfeng, rong, chang, lizhi).fenpei)
                    = 1000 * lizhi
          /\ \A ten \in SUBSET Seats, nag \in SUBSET Seats :
                Sum4(Pingju(game, "", { }, ten, nag).fenpei) = 0

\* C3 witness: the record holds the entry of a win by self-draw that awards
\* a riichi stick.
C3_Witness ==
    /\ game.log # << >>
    /\ LastLog(game).type = "hule"
    /\ LastLog(game).baojia = 0 - 1
    /\ LastLog(game).lizhibang = 1
    /\ Sum4(LastLog(game).fenpei) = 1000

\* The winners of a discard in the order reply_dapai finds them: by place
\* after the discarder, the first only with max_simultaneous_win 1.
RonOrder(g, rep) ==
    LET w == SelectSeq(<<1, 2, 3>>, LAMBDA i : i \in RonSeats(g, rep))
    IN  IF rule.maxSimultaneousWin = 1 /\ Len(w) > 1
        THEN SubSeq(w, 1, 1) ELSE w

\* The round after reply_hule has scored every winner that is left.
RECURSIVE Settle(_)
Settle(g) ==
    IF g.status = "hule" /\ g.hule # << >> THEN Settle(ReplyHule(g, V0))
    ELSE g

\* C4: when a discard is won by ron, the hule entries of the record are
\* those of the seats with a valid ron in turn order from the seat after the
\* discarder (with max_simultaneous_win 1 the first of them only); the first
\* entry is scored with the honba count and the riichi pool of the round,
\* every later one with honba 0 and pool 0; the winner of each entry gets its
\* points plus honba and pool, and the discarder pays.
C4_MultiRon ==
    game.status = "dapai" =>
        \A in \in DapaiInputs(game), c \in 0 .. MaxChang :
            LET g0 == [ game EXCEPT !.changbang = c, !.changbang0 = c ]
                w == RonOrder(g0, in.rep)
            IN  \A g2 \in { ReplyDapai(g0,
                                ReplyAll(NoReply, <<0, 1, 2, 3>>, in.rep),
                                in.v, in.ten, in.nag) } :
                  (w # << >> /\ g2.status = "hule") =>
                    \A gN \in { Settle(g2) } :
                      /\ Len(gN.log) = Len(w)
                      /\ gN.status = "hule" /\ gN.hule = << >>
                      /\ \A k \in 1 .. Len(w) :
                            \A e \in { gN.log[k] } :
                              LET l == (g0.lunban + w[k]) % 4
                              IN  /\ e.type = "hule" /\ e.l = l
                                  /\ e.baojia = g0.lunban
                                  /\ e.changbang = IF k = 1 THEN c ELSE 0
                                  /\ e.lizhibang =
                                        IF k = 1 THEN g0.lizhibang ELSE 0
                                  /\ e.fenpei[l] =
                                        e.defen + 300 * e.changbang
                                                + 1000 * e.lizhibang
                                  /\ e.fenpei[g0.lunban] < 0

\* C4 witness: three winners of one discard are in the record, the first of
\* them scored with a riichi stick of the pool.
C4_Witness ==
    /\ game.status = "hule" /\ Len(game.log) = 3
    /\ game.log[1].lizhibang = 1 /\ game.log[2].lizhibang = 0
    /\ game.log[3].lizhibang = 0
    /\ \A k \in 1 .. 3 : game.log[k].baojia = game.lunban

\* The transitions of the status the claim lists.
StatusSteps ==
    { <<"kaiju", "qipai">>, <<"qipai", "zimo">> }
    \cup { <<a, b>> : a \in {"zimo", "gangzimo"},
                      b \in {"dapai", "gang", "hule", "pingju"} }
    \cup { <<"dapai", b>> : b \in {"hule", "pingju", "fulou", "zimo"} }
    \cup { <<"fulou", b>> : b \in {"dapai", "gangzimo"} }
    \cup { <<"gang", b>> : b \in {"hule", "gangzimo"} }
    \cup { <<"hule", b>> : b \in {"hule", "qipai", "jieju"} }
    \cup { <<"pingju", b>> : b \in {"qipai", "jieju"} }

\* C8: a step of a game that has started takes the status along one of the
\* listed transitions, a hule to hule one only while a winner of the same
\* discard is left; from jieju the only step is the end-of-game callback,
\* which leaves the status.
C8_Transitions ==
    [][ game.status # "" =>
            IF game.status = "jieju"
            THEN game'.status = "jieju" /\ ~game.ended /\ game'.ended
            ELSE /\ <<game.status, game'.status>> \in StatusSteps
                 /\ (game.status = "hule" /\ game'.status = "hule"
                        => game.hule # << >>) ]_vars

\* C8 witness: the game went from hule to jieju and the end-of-game
\* callback was called.
C8_Witness ==
    /\ game.status = "jieju" /\ game.ended
    /\ LastLog(game).type = "hule"
    /\ game.round = 1

(***************************************************************************)
(* SpecRound: one round with the flags that depend on the hands.  The      *)
(* record of the game gets three more fields: yifa (_yifa), neng_rong      *)
(* (_neng_rong) and zimo, the kind of the tile the seat in turn drew (the  *)
(* empty string when its hand holds no drawn tile).  A step applies the    *)
(* reply handler and the assignments to these fields of the methods the    *)
(* handler calls.                                                          *)
(* What the tiles of a hand decide is an input, as before, but allow_hule  *)
(* is computed from _neng_rong and from what the hand is with the tile:    *)
(* "no" (not complete), "shape" (complete, no yaku of its own) or "yaku".  *)
(* last keeps the history the claims speak of: river[l], the hand of l was *)
(* tenpai at its last discard with a wait among its discards; passed[l],   *)
(* l let a winning tile go since its last discard; passedLizhi[l], l let a *)
(* winning tile go while in riichi; ron, the seats whose ron the last      *)
(* handler honored.                                                        *)
(***************************************************************************)

Four(b) == [ l \in Seats |-> b ]

\* The rules of the rounds: rule({enableKandora, enableKandoraAfterRide,
\* enableIppatsu}).
RoundRules ==
    { [ DefaultRule EXCEPT !.enableKandora = c[1],
                           !.enableKandoraAfterRide = c[2],
                           !.enableIppatsu = c[3] ]
      : c \in { <<TRUE, TRUE, TRUE>>, <<TRUE, FALSE, TRUE>>,
                <<FALSE, TRUE, FALSE>> } }

\* The Game after its constructor, with the three fields.
RoundNew(r) ==
    GameNew(r) @@ [ yifa |-> Four(FALSE), neng_rong |-> Four(TRUE),
                    zimo |-> "", paipu |-> << >>, sent |-> Four(<< >>) ]

NoSeen ==
    [ river |-> Four(FALSE), passed |-> Four(FALSE),
      passedLizhi |-> Four(FALSE), ron |-> { } ]

\* qipai(): _yifa and _neng_rong
QipaiFlags(g2) ==
    [ g2 EXCEPT !.yifa = Four(FALSE), !.neng_rong = Four(TRUE), !.zimo = "" ]

\* zimo(): p is the kind of the tile drawn
ZimoFlags(g2, p) == [ g2 EXCEPT !.zimo = p ]

\* dapai(dapai): g is the game the handler met, g2 the game after the
\* discard; fur says that the hand is now tenpai with a wait among its own
\* discards
DapaiFlagsKeepYifa(g, g2, fur) ==
    LET l == g.lunban
    IN  [ g2 EXCEPT
            !.yifa[l] = @ \/ (g2.dapai.star /\ rule.enableIppatsu),
            !.neng_rong[l] = IF fur THEN FALSE
                             ELSE IF g.lizhi[l] = 0 THEN TRUE ELSE @,
            !.zimo = "" ]

DapaiFlagsResetInRiichi(g, g2, fur) ==
    LET l == g.lunban
    IN  [ g2 EXCEPT
            !.yifa[l] = g2.dapai.star /\ rule.enableIppatsu,
            !.neng_rong[l] = ~fur,
            !.zimo = "" ]

DapaiFlags(g, g2, fur) ==
    LET l == g.lunban
    IN  [ g2 EXCEPT
            !.yifa[l] = g2.dapai.star /\ rule.enableIppatsu,
            !.neng_rong[l] = IF fur THEN FALSE
                             ELSE IF g.lizhi[l] = 0 THEN TRUE ELSE @,
            !.zimo = "" ]

\* fulou(fulou)
FulouFlags(g2) == [ g2 EXCEPT !.yifa = Four(FALSE), !.zimo = "" ]

\* gang(gang)
GangFlags(g2) == [ g2 EXCEPT !.zimo = "" ]

\* gangzimo(): p is the kind of the tile drawn
GangzimoFlags(g2, p) == [ g2 EXCEPT !.yifa = Four(FALSE), !.zimo = p ]

\* The hands of the four seats where no hand is told.
NoHands == Four("")

\* The starting hands of a deal.
StartHands == [ Seats -> {"a", "b"} ]

\* An entry of the record of a round and a message to a seat: l the seat
\* in turn, p a tile, shoupai the hands of a deal.
Entry(type, l, p, hs) == [ type |-> type, l |-> l, p |-> p, shoupai |-> hs ]

MaskNone(i, e) == e

\* msg[l] of qipai(), zimo() and gangzimo(): the copy of the entry for the
\* seat i, without the hands of the other seats and without the tile
\* another seat drew.
Mask(i, e) ==
    [ e EXCEPT !.p = IF e.type \in {"zimo", "gangzimo"} /\ i # e.l THEN ""
                     ELSE @,
               !.shoupai = [ j \in Seats |-> IF j # i THEN "" ELSE @[j] ] ]

\* What the method that left the game g2 appends to the record (paipu) and
\* hands to the seats (sent), in the order of its calls: add_paipu() of its
\* entry, kaigang() with its add_paipu() and notify_players() when the
\* method reveals an indicator, call_players() of its entry.  g is the
\* game before the method, hs the hands of a deal.
Emit(g, g2, hs) ==
    LET e == Entry(g2.status, g2.lunban,
                   IF g2.status \in {"zimo", "gangzimo"} THEN g2.zimo
                   ELSE IF g2.status = "dapai" THEN g2.dapai.k ELSE "", hs)
        kg == IF g2.status \in {"dapai", "gang", "gangzimo"}
                 /\ Len(Baopai(g2.shan)) > Len(Baopai(g.shan))
              THEN << Entry("kaigang", 0 - 1, "", NoHands) >> ELSE << >>
        To(i, es) == [ k \in DOMAIN es |-> Mask(i, es[k]) ]
    IN  [ g2 EXCEPT !.paipu = << e >> \o kg,
                    !.sent = [ i \in Seats |-> To(i, kg \o << e >>) ] ]

\* The assignments of the method the handler called, told by the status it
\* left: p is the kind of a tile drawn, fur as for DapaiFlags.
MethodFlags(g, g2, p, fur) ==
    Emit(g, CASE g2.status = "zimo"     -> ZimoFlags(g2, p)
              [] g2.status = "dapai"    -> DapaiFlags(g, g2, fur)
              [] g2.status = "fulou"    -> FulouFlags(g2)
              [] g2.status = "gang"     -> GangFlags(g2)
              [] g2.status = "gangzimo" -> GangzimoFlags(g2, p)
              [] OTHER                  -> g2,
         NoHands)

\* allow_hule(l): w is what the hand of l is with the discard or the tile
\* of the added kan
AllowRong(g, l, w) ==
    /\ g.neng_rong[l]
    /\ w # "no"
    /\ (g.lizhi[l] # 0 \/ g.status = "gang" \/ GPaishu(g) = 0 \/ w = "yaku")

\* allow_hule(): w is what the hand of the seat in turn is
AllowZimoHule(g, w) ==
    /\ w # "no"
    /\ \/ g.lizhi[g.lunban] # 0 \/ g.status = "gangzimo"
       \/ GPaishu(g) = 0 \/ w = "yaku"

\* The loop of reply_dapai and reply_gang: a seat whose ron is not taken
\* and whose hand is complete with the tile loses _neng_rong.  a[i] is the
\* answer of the seat lunban + i: its reply r and its hand w.
NengRongAfter(g, a) ==
    [ l \in Seats |->
        LET i == (4 + l - g.lunban) % 4
        IN  IF i = 0 THEN g.neng_rong[l]
            ELSE IF a[i].r.kind = "hule" /\ AllowHule(g, a[i].r)
            THEN g.neng_rong[l]
            ELSE IF a[i].w # "no" THEN FALSE
            ELSE g.neng_rong[l] ]

\* The replies by player id when only the seat in turn answers.
OwnRep(g, r) ==
    ReplyAll(NoReply, <<0, 1, 2, 3>>,
             [ id \in Seats |->
                 IF id = g.player_id[g.lunban] THEN r ELSE Empty ])

\* The replies by player id of the answers a of the seats lunban + 1 ..
\* lunban + 3.
OthersRep(g, a) ==
    ReplyAll(NoReply, <<0, 1, 2, 3>>,
             RepOf(g, [ i \in 1 .. 3 |-> a[i].r ], Empty))

\* The seats a handler of a discard or of an added kan takes the ron of.
Winners(g, a) ==
    LET Range(hule) == { hule[n] : n \in 1 .. Len(hule) }
    IN  Range(Rong(g, OthersRep(g, a), << >>, 1))

\* The seats whose hand is complete with the tile and whose ron is not taken.
Passing(g, a) ==
    LET Rest(ws) ==
            { l \in Seats \ ws :
                LET i == (4 + l - g.lunban) % 4
                IN  i # 0 /\ a[i].w # "no" }
    IN  Rest(Winners(g, a))

\* The history after the seat in turn discarded.
SeenDapai(g, h, fur) ==
    [ h EXCEPT !.river[g.lunban] = fur, !.passed[g.lunban] = FALSE,
               !.ron = { } ]

\* The history after a step that is no discard and asks no seat for a ron.
SeenOther(h) == [ h EXCEPT !.ron = { } ]

\* The history after the answers a to a discard or to an added kan were
\* handled and left the game g2.
SeenRong(g, h, a, g2) ==
    LET After(ps, ws) ==
            [ h EXCEPT
                !.passed = [ l \in Seats |-> @[l] \/ l \in ps ],
                !.passedLizhi =
                    [ l \in Seats |-> @[l] \/ (l \in ps /\ g.lizhi[l] # 0) ],
                !.ron = IF g2.status = "hule" THEN ws ELSE { } ]
    IN  After(Passing(g, a), Winners(g, a))

\* The kinds of tile the seat in turn may discard after a draw: in riichi
\* the tile drawn only.
DapaiKinds(g) == IF g.lizhi[g.lunban] # 0 THEN { g.zimo } ELSE Tiles(g)

\* reply_zimo() and what it calls: in.r is the reply of the seat in turn,
\* in.fur as for DapaiFlags.  get_dapai().pop() is the tile drawn.
RoundReplyZimo(g, h, in) ==
    LET Out(g2) ==
            [ game |-> MethodFlags(g, g2, "", in.fur),
              seen |-> IF g2.status = "dapai" THEN SeenDapai(g, h, in.fur)
                       ELSE SeenOther(h) ]
    IN  Out(ReplyZimo(g, OwnRep(g, in.r), g.zimo, V0))

\* reply_dapai() and what it calls: in.a are the answers of the other
\* seats, in.p the kind of the tile the next seat draws.  The hands in
\* riichi are the hands that are tenpai at an exhaustive draw.
RoundReplyDapai(g, h, in) ==
    LET Out(g1, g2) ==
            [ game |-> MethodFlags(g1, g2, in.p, FALSE),
              seen |-> SeenRong(g, h, in.a, g2) ]
        Handle(g1, rep) ==
            Out(g1, ReplyDapai(g1, rep, V0,
                               { l \in Seats : g.lizhi[l] # 0 }, { }))
    IN  Handle([ g EXCEPT !.neng_rong = NengRongAfter(g, in.a) ],
               OthersRep(g, in.a))

\* reply_fulou() and what it calls: in.r is the reply of the seat that
\* called (a discard with "*" is no tile of get_dapai()), in.pop the tile get_dapai().pop() gives, in.p the kind of the
\* tile of a kan draw.
RoundReplyFulou(g, h, in) ==
    LET Out(g2) ==
            [ game |-> MethodFlags(g, g2, in.p, in.fur),
              seen |-> IF g2.status = "dapai" THEN SeenDapai(g, h, in.fur)
                       ELSE SeenOther(h) ]
    IN  Out(ReplyFulou(g, OwnRep(g, in.r), in.pop))

\* reply_gang() and what it calls: a concealed kan asks no seat.
RoundReplyGang(g, h, in) ==
    LET Out(g1, g2) ==
            [ game |-> MethodFlags(g1, g2, in.p, FALSE),
              seen |-> IF g.gang = "an" THEN SeenOther(h)
                       ELSE SeenRong(g, h, in.a, g2) ]
        Handle(g1, rep) == Out(g1, ReplyGang(g1, rep, V0))
    IN  Handle(IF g.gang = "an" THEN g
               ELSE [ g EXCEPT !.neng_rong = NengRongAfter(g, in.a) ],
               OthersRep(g, in.a))

Hands == { "no", "shape", "yaku" }

\* The seats whose hands come to wait in the rounds of the model; the hands
\* of the other seats are never complete and never tenpai.
Waiters == { 0 }

HandsOf(l) == IF l \in Waiters THEN Hands ELSE { "no" }

FurOf(l) == IF l \in Waiters THEN BOOLEAN ELSE { FALSE }

\* What the seat in turn answers to its draw.
ZimoAnswers(g) ==
    { Empty, Msg("daopai", TRUE, ""), Msg("daopai", FALSE, ""),
      Msg("gang", TRUE, "an"), Msg("gang", FALSE, "an"),
      Msg("gang", g.lizhi[g.lunban] = 0, "jia"),
      DapaiMsg(FALSE, "x", FALSE, FALSE) }
    \cup { Msg("hule", AllowZimoHule(g, w), "") : w \in HandsOf(g.lunban) }
    \cup { DapaiMsg(TRUE, p, c[1], c[2] /\ g.lunban \in Waiters)
           : p \in DapaiKinds(g),
             c \in { <<FALSE, FALSE>>, <<TRUE, FALSE>>, <<TRUE, TRUE>> } }

RoundZimoInputs(g) ==
    { [ r |-> r, fur |-> fur ]
      : r \in ZimoAnswers(g), fur \in FurOf(g.lunban) }

Quiet == [ r |-> Empty, w |-> "no" ]

\* What the seat at place i after the discarder answers to a discard, with
\* what its hand is with the tile.  A seat in riichi has no meld to call.
Answers(g, i) ==
    LET l == (g.lunban + i) % 4
        free == g.lizhi[l] = 0
    IN  { [ r |-> Empty, w |-> w ] : w \in HandsOf(l) \ { "shape" } }
        \cup { [ r |-> Msg("hule", AllowRong(g, l, w), ""), w |-> w ]
               : w \in HandsOf(l) }
        \cup { [ r |-> Msg("fulou", free, m), w |-> "no" ]
               : m \in IF i = 1 THEN { "gang", "peng", "chi" }
                       ELSE { "gang", "peng" } }
        \cup { [ r |-> Msg("fulou", FALSE, "peng"), w |-> "no" ] }
        \cup { [ r |-> Msg("fulou", free, "peng"), w |-> w ]
               : w \in HandsOf(l) \ { "no", "shape" } }

\* The answers of the three seats in which the seats at the places i and k
\* answer x and y and the third has nothing to say.
Two(i, x, k, y) ==
    [ j \in 1 .. 3 |-> IF j = i THEN x ELSE IF j = k THEN y ELSE Quiet ]

\* The answers of the three seats to a discard: at most two of them have
\* something to say, and two seats cannot both hold a pair of the tile.
RoundDapaiVectors(g) ==
    UNION { { Two(c[1], x, c[2], y)
              : x \in Answers(g, c[1]),
                y \in { z \in Answers(g, c[2]) : ~IsPengGang(z.r) } }
            : c \in { <<1, 2>>, <<2, 1>>, <<1, 3>>, <<3, 1>>, <<2, 3>>,
                      <<3, 2>> } }

RoundDapaiInputs(g) ==
    { [ a |-> a, p |-> p ] : a \in RoundDapaiVectors(g), p \in Tiles(g) }

\* What the seat that called answers, and the tiles of reply_fulou.
RoundFulouInputs(g) ==
    { [ r |-> r, pop |-> "x", p |-> "x", fur |-> fur ]
      : r \in { Empty, DapaiMsg(TRUE, "x", FALSE, FALSE),
                DapaiMsg(TRUE, "z1", TRUE, TRUE),
                DapaiMsg(FALSE, "z1", FALSE, FALSE) },
        fur \in FurOf(g.lunban) }

\* What a seat answers to a kan, with what its hand is with the tile.
GangAnswers(g, i) ==
    LET l == (g.lunban + i) % 4
    IN  { [ r |-> Empty, w |-> w ] : w \in HandsOf(l) \ { "shape" } }
        \cup { [ r |-> Msg("hule", AllowRong(g, l, w), ""), w |-> w ]
               : w \in HandsOf(l) }

\* The answers of the three seats to a kan.
RoundGangInputs(g) ==
    UNION { { [ a |-> Two(c[1], x, c[2], y), p |-> "x" ]
              : x \in GangAnswers(g, c[1]), y \in GangAnswers(g, c[2]) }
            : c \in { <<1, 2>>, <<1, 3>>, <<2, 3>> } }

InitRound ==
    /\ rule \in RoundRules
    /\ shan = ShanNew(rule)
    /\ last = NoSeen
    /\ nGangzimo = 0 /\ nKaigang = 0 /\ nZimo = 0
    /\ game = RoundNew(rule)
    /\ drv = NoDrv
    /\ shoupai = NoShoupai
    /\ he = HeNew
    /\ nFulou = NoFulou
    /\ board = BoardNew

roundRest == <<rule, shan, nGangzimo, nKaigang, nZimo, drv, shoupai, he, nFulou, board>>

\* kaiju(qijia)
RKaiju ==
    /\ game.status = ""
    /\ \E q \in Qijias : game' = Kaiju(game, q)
    /\ UNCHANGED <<last, roundRest>>

\* reply_kaiju(): qipai()
RReplyKaiju ==
    /\ game.status = "kaiju"
    /\ \E hs \in StartHands :
         game' = Emit(game, QipaiFlags(ReplyKaiju(game)), hs)
    /\ last' = NoSeen
    /\ UNCHANGED roundRest

\* reply_qipai(): zimo()
RReplyQipai ==
    /\ game.status = "qipai"
    /\ \E p \in Tiles(game) :
         game' = Emit(game, ZimoFlags(ReplyQipai(game), p), NoHands)
    /\ last' = SeenOther(last)
    /\ UNCHANGED roundRest

RReplyZimo ==
    /\ game.status \in {"zimo", "gangzimo"}
    /\ \E in \in RoundZimoInputs(game) :
         \E s \in { RoundReplyZimo(game, last, in) } :
             game' = s.game /\ last' = s.seen
    /\ UNCHANGED roundRest

RReplyDapai ==
    /\ game.status = "dapai"
    /\ \E in \in RoundDapaiInputs(game) :
         \E s \in { RoundReplyDapai(game, last, in) } :
             game' = s.game /\ last' = s.seen
    /\ UNCHANGED roundRest

RReplyFulou ==
    /\ game.status = "fulou"
    /\ \E in \in RoundFulouInputs(game) :
         \E s \in { RoundReplyFulou(game, last, in) } :
             game' = s.game /\ last' = s.seen
    /\ UNCHANGED roundRest

RReplyGang ==
    /\ game.status = "gang"
    /\ \E in \in RoundGangInputs(game) :
         \E s \in { RoundReplyGang(game, last, in) } :
             game' = s.game /\ last' = s.seen
    /\ UNCHANGED roundRest

NextRound ==
    \/ RKaiju \/ RReplyKaiju \/ RReplyQipai \/ RReplyZimo \/ RReplyDapai
    \/ RReplyFulou \/ RReplyGang

SpecRound == InitRound /\ [][NextRound]_vars

(***************************************************************************)
(* Claims about one round                                                  *)
(***************************************************************************)

\* The number of dora indicators shown; each kaigang event shows one more.
Shown(g) == Len(Baopai(g.shan))

\* The number of kans declared whose indicator is not shown.
Unshown(g) == NGang(g) - (Shown(g) - 1)

\* C16: the indicator of a concealed kan is shown by the step that makes
\* the replacement draw; the indicator of an open or added kan is shown by
\* that step when kan-dora is not delayed, and otherwise by the step that
\* carries out that seat's discard or its next kan declaration, and never
\* when the seat wins on the replacement tile; no other step shows an
\* indicator, and none is shown when kan-dora is disabled.  While a seat
\* is asked for a reply to a plain draw or a discard is answered, no
\* indicator is outstanding.
C16_KanDora ==
    /\ [](rule.enableKandora /\ game.status \in {"zimo", "dapai"}
            => Unshown(game) = 0)
    /\ [][ Shown(game') - Shown(game)
            = CASE ~rule.enableKandora -> 0
                [] game'.status = "gangzimo" ->
                     IF game.gang = "an" \/ ~rule.enableKandoraAfterRide
                     THEN 1 ELSE 0
                [] /\ game.status = "gangzimo" /\ Unshown(game) > 0
                   /\ game'.status \in {"dapai", "gang"} -> 1
                [] OTHER -> 0 ]_vars

\* An open or added kan under delayed kan-dora: the replacement tile is
\* drawn, the indicator is not shown, and the discard shows it.
C16_Witness ==
    /\ rule.enableKandora /\ rule.enableKandoraAfterRide
    /\ game.status = "gangzimo" /\ game.gang \in {"daming", "jia"}
    /\ Shown(game) = 1 /\ Unshown(game) = 1
    /\ \E in \in RoundZimoInputs(game) :
         \E s \in { RoundReplyZimo(game, last, in).game } :
             s.status = "dapai" /\ Shown(s) = 2

\* C17 as stated: the ippatsu flag of a seat is set by its riichi discard
\* when ippatsu is enabled, cleared by every call and by that seat's next
\* draw, so a seat in riichi that is asked for its reply to a draw has the
\* flag false.
C17_AsStated ==
    /\ [][ /\ game'.status = "dapai" /\ game'.dapai.star
              => game'.yifa[game.lunban] = rule.enableIppatsu
           /\ game'.status \in {"fulou", "gangzimo"}
              => game'.yifa = Four(FALSE)
           /\ game'.status = "zimo" => ~game'.yifa[game'.lunban] ]_vars
    /\ [](game.status \in {"zimo", "gangzimo"} /\ game.lizhi[game.lunban] # 0
            => ~game.yifa[game.lunban])

\* C17: the ippatsu flag of a seat is set by its riichi discard when
\* ippatsu is enabled and cleared by its next discard; the flags of all
\* seats are cleared by every chi, pon and open kan and by the replacement
\* draw of every kan, and at the deal; no other step changes a flag, a
\* draw in particular leaves the flag of the seat that draws as it is.
\* Only a seat in riichi has the flag, and only when ippatsu is enabled.
C17_Ippatsu ==
    /\ [](\A l \in Seats :
             game.yifa[l] => game.lizhi[l] # 0 /\ rule.enableIppatsu)
    /\ [][ game'.yifa
            = CASE game'.status = "dapai" ->
                     [ game.yifa EXCEPT ![game.lunban] =
                         game'.dapai.star /\ rule.enableIppatsu ]
                [] game'.status \in {"qipai", "fulou", "gangzimo"} ->
                     Four(FALSE)
                [] OTHER -> game.yifa ]_vars

\* A seat in riichi is asked for its reply to its next draw and its
\* ippatsu flag is true.
C17_Witness ==
    /\ game.status = "zimo" /\ game.lizhi[game.lunban] # 0
    /\ game.yifa[game.lunban]

\* C18 as stated: the first-go-around flag is true at the deal, a call
\* clears it, once a discard that is no wind tile was made it is false, and
\* it is never set again within the round.
C18_AsStated ==
    /\ [](game.status = "qipai" => game.diyizimo)
    /\ [](game.status \in {"zimo", "gangzimo", "fulou"}
            /\ game.dapai.k # "" /\ ~IsFeng(game.dapai.k)
            => ~game.diyizimo)
    /\ [][ game.status \notin {"", "kaiju"} =>
             /\ game'.status \in {"fulou", "gangzimo"} => ~game'.diyizimo
             /\ ~game.diyizimo => ~game'.diyizimo ]_vars

\* C18: the first-go-around flag is true at the deal; it is cleared by a
\* chi, a pon, an open kan and the replacement draw of a kan, and when the
\* discard of the fourth seat has been answered without a ron, a triple
\* ron abort or a four-riichi abort; no other step changes it within the
\* round, a discard that is no wind tile in particular leaves it as it is.
C18_FirstTurn ==
    /\ [](game.status = "qipai" => game.diyizimo)
    /\ [][ game.status \notin {"", "kaiju"} =>
             LET call == game'.status \in {"fulou", "gangzimo"}
                 around ==
                     /\ game.status = "dapai" /\ game.lunban = 3
                     /\ game'.status # "hule"
                     /\ ~(/\ game'.status = "pingju"
                          /\ LastLog(game').name
                               \in {"sanjiahe", "sijializhi"})
             IN  game'.diyizimo = (game.diyizimo /\ ~call /\ ~around) ]_vars

\* The fourth seat discarded a tile that is no wind tile, the flag is still
\* true, and the handler of the discard clears it and lets the dealer draw.
C18_Witness ==
    /\ game.status = "dapai" /\ game.lunban = 3 /\ game.diyizimo
    /\ ~IsFeng(game.dapai.k)
    /\ \E in \in RoundDapaiInputs(game) :
         \E s \in { RoundReplyDapai(game, last, in).game } :
             s.status = "zimo" /\ ~s.diyizimo

\* C19: a seat is furiten (_neng_rong false) whenever its last discard
\* left a wait of its hand in its own river, whenever it let a tile go that
\* completes its hand and has not discarded since, and for the rest of the
\* round once it let such a tile go while in riichi; and the handler of a
\* discard or of an added kan takes the ron of no such seat.
C19_Furiten ==
    /\ \A l \in Seats :
          last.river[l] \/ last.passed[l] \/ last.passedLizhi[l]
          => ~game.neng_rong[l]
    /\ \A l \in last.ron :
          /\ game.status = "hule"
          /\ ~last.river[l] /\ ~last.passed[l] /\ ~last.passedLizhi[l]

\* Seat 0 let a winning tile go while in riichi; another seat discards a
\* tile that gives seat 0 a hand with a yaku, seat 0 answers with a ron,
\* and the handler does not end the round with a win.
C19_Witness ==
    /\ game.status = "dapai" /\ game.lunban # 0
    /\ game.lizhi[0] # 0 /\ last.passedLizhi[0]
    /\ \E in \in RoundDapaiInputs(game) :
         /\ in.a[(4 - game.lunban) % 4].r.kind = "hule"
         /\ in.a[(4 - game.lunban) % 4].w = "yaku"
         /\ \E s \in { RoundReplyDapai(game, last, in) } :
              s.game.status # "hule" /\ s.seen.ron = { }

\* A reply to a draw that is a move of the seat in turn.
LegalZimo(g, r) ==
    \/ r.kind = "daopai" /\ AllowPingju(g, r)
    \/ r.kind = "hule" /\ AllowHule(g, r)
    \/ r.kind = "gang" /\ FindGang(g, r)
    \/ r.kind = "dapai" /\ r.ok

\* An answer to a discard or to a kan that is a move of the seat.
LegalAnswer(g, x) == x.r.kind \in {"hule", "fulou"} /\ x.r.ok

\* The answers a with no reply in the place of every answer that is no
\* move.
Ignoring(g, a) ==
    [ i \in 1 .. 3 |->
        IF LegalAnswer(g, a[i]) THEN a[i] ELSE [ a[i] EXCEPT !.r = Empty ] ]

\* Some answer of a is a reply that is no move.
NoMove(g, a) ==
    \E i \in 1 .. 3 : a[i].r.kind # "" /\ ~LegalAnswer(g, a[i])

LizhiRules ==
    { [ DefaultRule EXCEPT !.enableRiichiWithoutTurn = TRUE,
                           !.enableInterruptedGame = b ] : b \in BOOLEAN }

InitLizhi ==
    /\ rule \in LizhiRules
    /\ shan = ShanNew(rule)
    /\ last = [ op |-> "new", ok |-> TRUE, weikaigang |-> FALSE,
                closed |-> FALSE, paishu |-> NPai - NWangpai, nGangzimo |-> 0 ]
    /\ nGangzimo = 0 /\ nKaigang = 0 /\ nZimo = 0
    /\ game = GameNew(rule)
    /\ drv = NoDrv
    /\ shoupai = NoShoupai
    /\ he = HeNew
    /\ nFulou = NoFulou
    /\ board = BoardNew

\* reply_zimo(): the seat in turn discards, with or without a riichi, or
\* declares a concealed or an added kan.
LReplyZimo ==
    /\ game.status \in {"zimo", "gangzimo"}
    /\ \E r \in { DapaiMsg(TRUE, p, star, star)
                   : p \in Tiles(game), star \in BOOLEAN }
                 \cup { Msg("gang", TRUE, "an"), Msg("gang", TRUE, "jia") } :
         game' = ReplyZimo(game,
                     ReplyAll(NoReply, <<0, 1, 2, 3>>,
                         [ id \in Seats |->
                             IF id = game.player_id[game.lunban]
                             THEN r ELSE Empty ]),
                     "x", V0)
    /\ UNCHANGED gameRest

\* reply_dapai(): every other seat answers with a ron or with nothing, or
\* one seat calls an open kan.
LReplyDapai ==
    /\ game.status = "dapai"
    /\ \E a \in [ 1 .. 3 -> { Empty, Msg("hule", TRUE, "") } ]
                 \cup { [ i \in 1 .. 3 |-> IF i = k
                                           THEN Msg("fulou", TRUE, "gang")
                                           ELSE Empty ] : k \in 1 .. 3 } :
         game' = ReplyDapai(game,
                     ReplyAll(NoReply, <<0, 1, 2, 3>>, RepOf(game, a, Empty)),
                     V0, { l \in Seats : game.lizhi[l] # 0 }, { })
    /\ UNCHANGED gameRest

\* reply_fulou() after the open kan, and reply_gang() with no ron.
LReplyGang ==
    /\ \/ game.status = "fulou" /\ game' = ReplyFulou(game, NoReply, "x")
       \/ game.status = "gang" /\ game' = ReplyGang(game, NoReply, V0)
    /\ UNCHANGED gameRest

\* One round: the steps up to the win or the draw that ends it.
NextLizhi ==
    \/ GKaiju \/ GReplyKaiju \/ GReplyQipai \/ LReplyZimo \/ LReplyDapai
    \/ LReplyGang

SpecLizhi == InitLizhi /\ [][NextLizhi]_vars

Ronned == \/ game'.status = "hule"
          \/ game'.status = "pingju" /\ LastLog(game').name = "sanjiahe"

\* The step ends the round as the draw of the name.
EndsAs(name) == game'.status = "pingju" /\ LastLog(game').name = name

\* The kans of the round are not all of one seat.
Spread(g) == \A l \in Seats : g.n_gang[l] < 4

\* C22 as stated: with four kans that are not all of one seat and
\* interrupted draws enabled, the step that answers a discard ends the
\* round as sikaigang unless the discard is ronned.
C22_AsStated ==
    [][ /\ game.status = "dapai" /\ NGang(game) = 4 /\ Spread(game)
        /\ rule.enableInterruptedGame /\ ~Ronned
        => EndsAs("sikaigang") ]_vars

\* C22: with four kans that are not all of one seat and interrupted draws
\* enabled, the step that answers a discard ends the round as sikaigang
\* unless the discard is ronned or is the fourth riichi declaration, which
\* ends the round as sijializhi; no other step ends a round as sikaigang,
\* and with four kans of one seat the round goes on to the next draw while
\* tiles are left.  A round never has more than four kans: with four kans
\* no step declares or calls a kan.
C22_FourKans ==
    /\ [](NGang(game) <= 4)
    /\ [][ /\ EndsAs("sikaigang")
              <=> /\ game.status = "dapai" /\ NGang(game) = 4
                  /\ Spread(game) /\ rule.enableInterruptedGame
                  /\ ~Ronned /\ ~EndsAs("sijializhi")
           /\ /\ game.status = "dapai" /\ NGang(game) = 4 /\ ~Spread(game)
              /\ ~Ronned /\ ~EndsAs("sijializhi") /\ GPaishu(game) # 0
              => game'.status = "zimo"
           /\ NGang(game) = 4 /\ game.status \notin {"", "kaiju"}
              => game'.status # "gang" /\ game'.n_gang = game.n_gang ]_vars

\* The round ended as sikaigang after the kans of two seats or more.
C22_Witness ==
    /\ game.status = "pingju" /\ LastLog(game).name = "sikaigang"
    /\ NGang(game) = 4 /\ Spread(game)
    /\ \E l \in Seats : game.n_gang[l] = 2

\* C23 as stated: what each seat is handed by a method of the round is
\* what the method appended to the record, in the same order.
C23_AsStated ==
    \A i \in Seats :
        /\ Len(game.sent[i]) = Len(game.paipu)
        /\ \A k \in 1 .. Len(game.paipu) :
              game.sent[i][k].type = game.paipu[k].type

\* The entry e of the record with the tiles that are private to the seats
\* other than i replaced: their starting hands by hs, the tile another
\* seat drew by p.
Elsewhere(i, e, hs, p) ==
    [ e EXCEPT
        !.shoupai = IF e.type = "qipai"
                    THEN [ j \in Seats |-> IF j = i THEN @[j] ELSE hs[j] ]
                    ELSE @,
        !.p = IF e.type \in {"zimo", "gangzimo"} /\ e.l # i THEN p ELSE @ ]

\* C30: the record of a deal holds the four starting hands and the record
\* of a draw the tile drawn; in what seat i is handed the hands of the
\* other seats and the tile another seat drew are blank, and what seat i
\* is handed for an entry is what it would be handed had the other seats
\* other hands and drawn another tile.
C30_Masked ==
    \A i \in Seats :
        LET Got == { game.sent[i][k] : k \in 1 .. Len(game.sent[i]) }
        IN  /\ \A m \in Got :
                  /\ m.type \in {"zimo", "gangzimo"} /\ m.l # i => m.p = ""
                  /\ m.type \in {"zimo", "gangzimo"} /\ m.l = i => m.p # ""
                  /\ \A j \in Seats \ {i} : m.shoupai[j] = ""
                  /\ m.type = "qipai" => m.shoupai[i] # ""
            /\ \A k \in 1 .. Len(game.paipu) :
                  LET e == game.paipu[k]
                  IN  /\ e.type \in {"zimo", "gangzimo"} => e.p = game.zimo
                      /\ e.type = "qipai" => e.shoupai \in StartHands
                      /\ \A hs \in StartHands, p \in {"x", "z1", "z2"} :
                            Mask(i, Elsewhere(i, e, hs, p)) \in Got

\* Seat 0 drew a wind tile: the record and the message to seat 0 hold it,
\* the message to seat 1 does not.
C30_Witness ==
    /\ game.status = "zimo" /\ game.lunban = 0
    /\ game.paipu = << Entry("zimo", 0, "z1", NoHands) >>
    /\ game.sent[0] = << Entry("zimo", 0, "z1", NoHands) >>
    /\ game.sent[1] = << Entry("zimo", 0, "", NoHands) >>

\* C24 as stated: when the handler of a discard takes the ron of a hand
\* with a yakuman under pao, and the liable seat is not the discarder, the
\* liable seat pays the whole of that yakuman and the discarder pays the
\* rest of the hand and the honba.
C24_AsStated ==
    game.status = "dapai" =>
        \A in \in DapaiInputs(game) :
            \A g2 \in { ReplyDapai(game,
                                   ReplyAll(NoReply, <<0, 1, 2, 3>>, in.rep),
                                   in.v, in.ten, in.nag) } :
                g2.status = "hule" /\ in.v.ym > 0 /\ in.v.pao # "" =>
                    LET e == LastLog(g2)
                        liable == (e.l + DirOff(in.v.pao)) % 4
                        mult == IF e.l = 0 THEN 6 ELSE 4
                        all == IF rule.enableYakumanComposite THEN in.v.ym
                               ELSE 1
                        part == 8000 * Min2(in.v.paoN, all) * mult
                        rest == 8000 * all * mult - part
                    IN  liable # e.baojia =>
                            /\ e.fenpei[liable] = 0 - part
                            /\ e.fenpei[e.baojia]
                               = 0 - (rest + e.changbang * 300)

(***************************************************************************)
(* Shoupai (src/src/shoupai.ts, class Shoupai)                             *)
(* A string is a sequence of one-character strings, so that toString and   *)
(* fromString work on characters as the code does.  A tile is the string   *)
(* of its suit and its digit followed by its markers; "no value" (null,    *)
(* undefined, false) is the empty string.                                  *)
(***************************************************************************)
Digits == << "0", "1", "2", "3", "4", "5", "6", "7", "8", "9" >>

IsDigit(c) == \E i \in 1 .. 10 : Digits[i] = c

Num(c) == (CHOOSE i \in 1 .. 10 : Digits[i] = c) - 1

Dig(n) == Digits[n + 1]

Dirs == { "+", "=", "-" }

Suits == << "m", "p", "s", "z" >>

\* bingpai.length - 1 of a suit: z has the numbers 1..7 only
Top(s) == IF s = "z" THEN 7 ELSE 9

Rep(c, k) == [ i \in 1 .. k |-> c ]

Max2(a, b) == IF a > b THEN a ELSE b

\* the string t is _?\*?[+=-]?
Markers(t) ==
    \E a \in { << >>, << "_" >> }, b \in { << >>, << "*" >> },
       c \in { << >>, << "+" >>, << "=" >>, << "-" >> } : t = a \o b \o c

\* Shoupai.valid_pai: /^(?:[mps]\d|z[1-7])_?\*?[\+\=\-]?$/
ValidPai(p) ==
    /\ Len(p) >= 2
    /\ IsDigit(p[2])
    /\ \/ p[1] \in { "m", "p", "s" }
       \/ p[1] = "z" /\ Num(p[2]) \in 1 .. 7
    /\ Markers(SubSeq(p, 3, Len(p)))

\* the digits of m in ascending order
RECURSIVE SortDigits(_, _)
SortDigits(ds, n) ==
    IF n > 9 THEN << >>
    ELSE Rep(Dig(n), Len(SelectSeq(ds, LAMBDA c : c = Dig(n)))) \o SortDigits(ds, n + 1)

Reverse(t) == [ i \in 1 .. Len(t) |-> t[Len(t) + 1 - i] ]

\* m.match(/\d(?![\+\=\-])/g): the digits no direction flag follows
RECURSIVE Unflagged(_, _)
Unflagged(m, i) ==
    IF i > Len(m) THEN << >>
    ELSE (IF IsDigit(m[i]) /\ ~(i < Len(m) /\ m[i + 1] \in Dirs)
          THEN << m[i] >> ELSE << >>) \o Unflagged(m, i + 1)

\* Shoupai.valid_mianzi: the meld in canonical form, "" when it is none
ValidMianzi(m) ==
    LET h == [ i \in 1 .. Len(m) |-> IF m[i] = "0" THEN "5" ELSE m[i] ]
        n == Len(m)
        same(a, b) == \A i \in a .. b : IsDigit(h[i]) /\ h[i] = h[a]
        \* /^[mpsz](\d)\1\1[\+\=\-]\1?$/
        ke == /\ n \in { 5, 6 } /\ same(2, 4) /\ h[5] \in Dirs
              /\ n = 6 => h[6] = h[2]
        \* /^[mpsz](\d)\1\1\1[\+\=\-]?$/
        gang == /\ n \in { 5, 6 } /\ same(2, 5)
                /\ n = 6 => h[6] \in Dirs
        \* /^[mps]\d+\-\d*$/
        k == IF \E i \in 1 .. n : h[i] = "-"
             THEN CHOOSE i \in 1 .. n : h[i] = "-" /\ \A j \in 1 .. i - 1 : h[j] # "-"
             ELSE 0
        shun == /\ n >= 3 /\ h[1] \in { "m", "p", "s" } /\ k >= 3
                /\ \A i \in 2 .. n : i # k => IsDigit(h[i])
        nn == SortDigits(SelectSeq(h, IsDigit), 0)
        flagged == h[k - 1]
        sorted == << h[1] >> \o
                  (IF nn[1] = flagged THEN << nn[1], "-" >> ELSE << nn[1] >>) \o
                  (IF nn[2] = flagged THEN << nn[2], "-" >> ELSE << nn[2] >>) \o
                  (IF nn[3] = flagged THEN << nn[3], "-" >> ELSE << nn[3] >>)
        five == CHOOSE i \in 1 .. Len(sorted) :
                    sorted[i] = "5" /\ \A j \in 1 .. i - 1 : sorted[j] # "5"
    IN  IF n < 2 \/ m[1] \notin { "m", "p", "s", "z" } THEN << >>
        ELSE IF m[1] = "z" /\ \E i \in 2 .. n : m[i] \in { "0", "8", "9" } THEN << >>
        ELSE IF ke THEN
            IF m[1] # "z" /\ m[2] = "0" /\ m[3] = "5"
            THEN [ m EXCEPT ![2] = "5", ![3] = "0" ] ELSE m
        ELSE IF gang THEN
            << m[1] >> \o Reverse(SortDigits(Unflagged(m, 1), 0))
                       \o (IF n = 6 THEN << m[5], m[6] >> ELSE << >>)
        ELSE IF shun THEN
            IF Len(nn) # 3 \/ Num(nn[1]) + 1 # Num(nn[2]) \/ Num(nn[2]) + 1 # Num(nn[3])
            THEN << >>
            ELSE IF \E i \in 1 .. n : m[i] = "0"
                 THEN IF \E i \in 1 .. Len(sorted) : sorted[i] = "5"
                      THEN [ sorted EXCEPT ![five] = "0" ] ELSE sorted
                 ELSE sorted
        ELSE << >>

NewBingpai == [ hid |-> 0, m |-> [ n \in 0 .. 9 |-> 0 ], p |-> [ n \in 0 .. 9 |-> 0 ],
                s |-> [ n \in 0 .. 9 |-> 0 ], z |-> [ n \in 0 .. 9 |-> 0 ] ]

\* new Shoupai([]); thrown: the last call on the hand threw
NewShoupai == [ bingpai |-> NewBingpai, fulou |-> << >>, zimo |-> << >>,
                lizhi |-> FALSE, thrown |-> FALSE ]

Throw(h) == [ h EXCEPT !.thrown = TRUE ]

\* the loop of the constructor over qipai
RECURSIVE AddQipai(_, _)
AddQipai(h, qipai) ==
    IF qipai = << >> \/ h.thrown THEN h
    ELSE LET p == Head(qipai) IN
         IF p = << "_" >>
         THEN AddQipai([ h EXCEPT !.bingpai.hid = @ + 1 ], Tail(qipai))
         ELSE IF ~ValidPai(p) THEN Throw(h)
         ELSE LET s == p[1]
                  n == Num(p[2])
              IN  IF h.bingpai[s][n] = 4 THEN Throw(h)
                  ELSE AddQipai([ h EXCEPT
                                    !.bingpai[s][n] = @ + 1,
                                    !.bingpai[s][5] = IF s # "z" /\ n = 0 THEN @ + 1 ELSE @ ],
                                Tail(qipai))

\* Shoupai.constructor
ShoupaiNew(qipai) == AddQipai(NewShoupai, qipai)

\* paistr.split(",")
RECURSIVE Split(_)
Split(t) ==
    IF \A i \in 1 .. Len(t) : t[i] # "," THEN << t >>
    ELSE LET k == CHOOSE i \in 1 .. Len(t) :
                      t[i] = "," /\ \A j \in 1 .. i - 1 : t[j] # ","
         IN  << SubSeq(t, 1, k - 1) >> \o Split(SubSeq(t, k + 1, Len(t)))

\* the tiles of bingpai.match(/[mpsz]\d+/g): cur is the suit of the match
\* the scan is in, "" outside a match
RECURSIVE Scan(_, _)
Scan(t, cur) ==
    IF t = << >> THEN << >>
    ELSE LET c == Head(t) IN
         IF c \in { "m", "p", "s", "z" } THEN Scan(Tail(t), c)
         ELSE IF IsDigit(c) /\ cur # ""
         THEN (IF cur = "z" /\ Num(c) \notin 1 .. 7 THEN << >> ELSE << << cur, c >> >>)
              \o Scan(Tail(t), cur)
         ELSE Scan(Tail(t), "")

\* the loop of fromString over the melds
RECURSIVE ReadFulou(_, _, _)
ReadFulou(ms, acc, lastm) ==
    IF ms = << >> THEN [ fulou |-> acc, zimo |-> << >> ]
    ELSE IF Head(ms) = << >> THEN [ fulou |-> acc, zimo |-> lastm ]
    ELSE LET m == ValidMianzi(Head(ms)) IN
         IF m # << >> THEN ReadFulou(Tail(ms), Append(acc, m), m)
         ELSE ReadFulou(Tail(ms), acc, lastm)

\* Shoupai.fromString
ShoupaiFromString(paistr) ==
    LET parts == Split(paistr)
        bingpai == Head(parts)
        fulou == Tail(parts)
        all == [ i \in 1 .. Len(SelectSeq(bingpai, LAMBDA c : c = "_")) |-> << "_" >> ]
               \o Scan(bingpai, "")
        room == 14 - 3 * Len(SelectSeq(fulou, LAMBDA m : m # << >>))
        qipai == SubSeq(all, 1, IF room >= 0 THEN Min2(room, Len(all))
                                ELSE Max2(Len(all) + room, 0))
        zimo == IF Len(qipai) >= 2 /\ (Len(qipai) - 2) % 3 = 0
                THEN qipai[Len(qipai)] ELSE << >>
        h == ShoupaiNew(qipai)
        r == ReadFulou(fulou, << >>, << >>)
    IN  IF h.thrown THEN h
        ELSE [ h EXCEPT !.fulou = r.fulou,
                        !.zimo = IF r.zimo # << >> THEN r.zimo ELSE zimo,
                        !.lizhi = bingpai # << >> /\ bingpai[Len(bingpai)] = "*" ]

\* the part of toString for the suit s: the red fives come first among the
\* fives, the tile drawn is left out
SuitStr(h, s) ==
    LET b == h.bingpai[s]
        z == h.zimo
        NPaiOf(n) == Max2(0, b[n] - (IF z = << s, Dig(n) >> THEN 1 ELSE 0)
                                  - (IF n = 5 /\ z = << s, "0" >> THEN 1 ELSE 0))
        hong == Max2(0, (IF s = "z" THEN 0 ELSE b[0]) - (IF z = << s, "0" >> THEN 1 ELSE 0))
        Run(n) == IF n = 5
                  THEN Rep("0", Min2(hong, NPaiOf(5)))
                       \o Rep("5", NPaiOf(5) - Min2(hong, NPaiOf(5)))
                  ELSE Rep(Dig(n), NPaiOf(n))
        all == Run(1) \o Run(2) \o Run(3) \o Run(4) \o Run(5) \o Run(6) \o Run(7)
               \o (IF s = "z" THEN << >> ELSE Run(8) \o Run(9))
    IN  IF all = << >> THEN << >> ELSE << s >> \o all

RECURSIVE JoinFulou(_)
JoinFulou(ms) == IF ms = << >> THEN << >> ELSE << "," >> \o Head(ms) \o JoinFulou(Tail(ms))

\* Shoupai.toString
ShoupaiToString(h) ==
    Rep("_", h.bingpai.hid - (IF h.zimo = << "_" >> THEN 1 ELSE 0))
    \o SuitStr(h, "m") \o SuitStr(h, "p") \o SuitStr(h, "s") \o SuitStr(h, "z")
    \o (IF h.zimo # << >> /\ Len(h.zimo) <= 2 THEN h.zimo ELSE << >>)
    \o (IF h.lizhi THEN << "*" >> ELSE << >>)
    \o JoinFulou(h.fulou)
    \o (IF h.zimo # << >> /\ Len(h.zimo) > 2 THEN << "," >> ELSE << >>)

DecreaseVisible(h, s, n) ==
    LET b == h.bingpai[s] IN
    IF b[n] = 0 \/ (n = 5 /\ b[0] = b[5])
    THEN Throw(h)
    ELSE [ h EXCEPT !.bingpai[s][n] = @ - 1,
                    !.bingpai[s][5] = IF n = 0 THEN @ - 1 ELSE @ ]

\* Shoupai.decrease
Decrease(h, s, n) ==
    LET b == h.bingpai[s] IN
    IF b[n] = 0 \/ (n = 5 /\ b[0] = b[5])
    THEN IF h.bingpai.hid = 0 THEN Throw(h)
         ELSE [ h EXCEPT !.bingpai.hid = @ - 1 ]
    ELSE [ h EXCEPT !.bingpai[s][n] = @ - 1,
                    !.bingpai[s][5] = IF n = 0 THEN @ - 1 ELSE @ ]

RECURSIVE DecreaseAll(_, _, _)
DecreaseAll(h, s, ds) ==
    IF ds = << >> \/ h.thrown THEN h
    ELSE DecreaseAll(Decrease(h, s, Num(Head(ds))), s, Tail(ds))

\* Shoupai.zimo
ShoupaiZimo(h, p, check) ==
    IF check /\ h.zimo # << >> THEN Throw(h)
    ELSE IF p = << "_" >> THEN [ h EXCEPT !.bingpai.hid = @ + 1, !.zimo = p ]
    ELSE IF ~ValidPai(p) THEN Throw(h)
    ELSE LET s == p[1]
             n == Num(p[2])
             b == h.bingpai[s]
         IN  IF b[n] = 4 THEN Throw(h)
             ELSE IF n = 0 /\ b[5] = 4 THEN Throw([ h EXCEPT !.bingpai[s][0] = @ + 1 ])
             ELSE [ h EXCEPT !.bingpai[s][n] = @ + 1,
                             !.bingpai[s][5] = IF n = 0 THEN @ + 1 ELSE @,
                             !.zimo = << s, p[2] >> ]

\* Shoupai.dapai
ShoupaiDapai(h, p, check) ==
    IF check /\ h.zimo = << >> THEN Throw(h)
    ELSE IF ~ValidPai(p) THEN Throw(h)
    ELSE LET d == Decrease(h, p[1], Num(p[2])) IN
         IF d.thrown THEN d
         ELSE [ d EXCEPT !.zimo = << >>, !.lizhi = @ \/ p[Len(p)] = "*" ]

\* /\d{4}$/
IsAngang(m) == Len(m) >= 4 /\ \A i \in Len(m) - 3 .. Len(m) : IsDigit(m[i])

\* /\d{3}[\+\=\-]\d$/
IsJiagang(m) ==
    /\ Len(m) >= 5 /\ IsDigit(m[Len(m)]) /\ m[Len(m) - 1] \in Dirs
    /\ \A i \in Len(m) - 4 .. Len(m) - 2 : IsDigit(m[i])

\* /\d{4}/
IsGang(m) == \E i \in 1 .. Len(m) - 3 : \A j \in i .. i + 3 : IsDigit(m[j])

\* Shoupai.fulou
ShoupaiFulou(h, m, check) ==
    IF check /\ h.zimo # << >> THEN Throw(h)
    ELSE IF m = << >> \/ m # ValidMianzi(m) THEN Throw(h)
    ELSE IF IsAngang(m) \/ IsJiagang(m) THEN Throw(h)
    ELSE LET d == DecreaseAll(h, m[1], Unflagged(m, 1)) IN
         IF d.thrown THEN d
         ELSE [ d EXCEPT !.fulou = Append(@, m),
                         !.zimo = IF IsGang(m) THEN @ ELSE m ]

\* Shoupai.gang
ShoupaiGang(h, m, check) ==
    IF check /\ h.zimo = << >> THEN Throw(h)
    ELSE IF check /\ Len(h.zimo) > 2 THEN Throw(h)
    ELSE IF m = << >> \/ m # ValidMianzi(m) THEN Throw(h)
    ELSE IF IsAngang(m)
    THEN LET d == DecreaseAll(h, m[1], SelectSeq(m, IsDigit)) IN
         IF d.thrown THEN d
         ELSE [ d EXCEPT !.fulou = Append(@, m), !.zimo = << >> ]
    ELSE IF IsJiagang(m)
    THEN LET m1 == SubSeq(m, 1, 5) IN
         IF \A i \in 1 .. Len(h.fulou) : h.fulou[i] # m1 THEN Throw(h)
         ELSE LET i == CHOOSE i \in 1 .. Len(h.fulou) :
                           h.fulou[i] = m1 /\ \A j \in 1 .. i - 1 : h.fulou[j] # m1
                  d == Decrease([ h EXCEPT !.fulou[i] = m ], m[1], Num(m[Len(m)]))
              IN  IF d.thrown THEN d ELSE [ d EXCEPT !.zimo = << >> ]
    ELSE Throw(h)

\* Shoupai.get_dapai: the tiles the hand may discard, null without a draw
ShoupaiGetDapai(h, check) ==
    LET m == h.zimo
        s0 == m[1]
        flagged == SelectSeq([ i \in 1 .. Len(m) - 1 |->
                                 IF IsDigit(m[i]) /\ m[i + 1] \in Dirs THEN m[i] ELSE "" ],
                             LAMBDA c : c # "")
        n0 == IF flagged = << >> \/ flagged[1] = "0" THEN 5 ELSE Num(flagged[1])
        k0 == IF \E i \in 1 .. Len(m) : m[i] = "0"
              THEN CHOOSE i \in 1 .. Len(m) : m[i] = "0" /\ \A j \in 1 .. i - 1 : m[j] # "0"
              ELSE 0
        m5 == [ i \in 1 .. Len(m) |-> IF i = k0 THEN "5" ELSE m[i] ]
        ke == Len(m5) >= 4 /\ IsDigit(m5[2]) /\ m5[3] = m5[2] /\ m5[4] = m5[2]
        \* /^[mps]\d\-\d\d$/ and /^[mps]\d\d\d\-$/
        left == Len(m) = 5 /\ m[1] # "z" /\ m[3] = "-"
                /\ IsDigit(m[2]) /\ IsDigit(m[4]) /\ IsDigit(m[5])
        right == Len(m) = 5 /\ m[1] # "z" /\ m[5] = "-"
                 /\ IsDigit(m[2]) /\ IsDigit(m[3]) /\ IsDigit(m[4])
        deny == IF check /\ Len(m) > 2
                THEN { << s0, Dig(n0) >> }
                     \cup (IF ~ke /\ n0 < 7 /\ left THEN { << s0, Dig(n0 + 3) >> } ELSE { })
                     \cup (IF ~ke /\ 3 < n0 /\ right THEN { << s0, Dig(n0 - 3) >> } ELSE { })
                ELSE { }
        Of(s, n) ==
            LET b == h.bingpai[s] IN
            IF b[n] = 0 \/ << s, Dig(n) >> \in deny \/ (<< s, Dig(n) >> = m /\ b[n] = 1)
            THEN << >>
            ELSE IF s = "z" \/ n # 5 THEN << << s, Dig(n) >> >>
            ELSE (IF (b[0] > 0 /\ << s, "0" >> # m) \/ b[0] > 1
                  THEN << << s, "0" >> >> ELSE << >>)
                 \o (IF b[0] < b[5] THEN << << s, "5" >> >> ELSE << >>)
        OfSuit(s) == Of(s, 1) \o Of(s, 2) \o Of(s, 3) \o Of(s, 4) \o Of(s, 5) \o Of(s, 6)
                     \o Of(s, 7) \o (IF s = "z" THEN << >> ELSE Of(s, 8) \o Of(s, 9))
    IN  IF m = << >> THEN [ null |-> TRUE, dapai |-> << >> ]
        ELSE [ null |-> FALSE,
               dapai |-> (IF h.lizhi THEN << >>
                          ELSE OfSuit("m") \o OfSuit("p") \o OfSuit("s") \o OfSuit("z"))
                         \o (IF Len(m) = 2 THEN << m \o << "_" >> >> ELSE << >>) ]

(***************************************************************************)
(* One hand under the calls of its interface: the hand is built by         *)
(* fromString (which runs the constructor) from a bounded set of strings   *)
(* and then takes zimo, dapai, fulou, gang and fromString calls.           *)
(***************************************************************************)
\* the longest list of concealed tiles a first string holds
MaxQipai == 5

\* the size of a full hand: zimo is not called on a hand of this size
MaxPai == 14

HandTiles == { << "_" >>, << "m", "0" >>, << "m", "5" >>, << "m", "6" >>, << "z", "1" >> }

RECURSIVE Concat(_)
Concat(ts) == IF ts = << >> THEN << >> ELSE Head(ts) \o Concat(Tail(ts))

\* three melds called before, so that MaxQipai - 1 tiles make a hand
\* waiting for its draw and MaxQipai tiles a hand holding it
StartFulou == << ",", "p", "1", "-", "2", "3", ",", "p", "4", "-", "5", "6",
                 ",", "s", "7", "-", "8", "9" >>

\* nine concealed tiles no call of the model touches, for the hands
\* without melds
StartPai == << "p", "1", "2", "3", "4", "5", "6", "7", "8", "9" >>

\* the first strings: MaxQipai - 1 or MaxQipai tiles, with three melds or
\* with nine more concealed tiles, in riichi or not
StartStrings ==
    { f[1] \o Concat(q) \o l \o f[2] :
        q \in [ 1 .. MaxQipai - 1 -> HandTiles ] \cup [ 1 .. MaxQipai -> HandTiles ],
        l \in { << >>, << "*" >> },
        f \in { << << >>, StartFulou >>, << StartPai, << >> >> } }

ZimoTiles == HandTiles \cup { << "z", "0" >> }

DapaiTiles ==
    { t \o k : t \in HandTiles \ { << "_" >> }, k \in { << >>, << "*" >>, << "_" >> } }
    \cup { << "_" >> }

FulouMelds == { << "z", "1", "1", "1", "=" >>, << "m", "4", "-", "5", "6" >>,
                << "m", "4", "-", "0", "6" >>, << "m", "5", "5", "0", "=" >>,
                << "z", "1", "1", "1", "1", "=" >>, << "z", "1", "1", "1", "1" >>,
                << "m", "6", "5", "4", "-" >> }

GangMelds == { << "z", "1", "1", "1", "1" >>, << "z", "1", "1", "1", "=", "1" >>,
               << "m", "5", "5", "5", "0" >>, << "m", "5", "5", "0", "=", "5" >>,
               << "z", "1", "1", "1", "=" >> }

\* the tiles of the hand, a meld counting as three
NPaiAll(h) ==
    LET Of(s) == h.bingpai[s][1] + h.bingpai[s][2] + h.bingpai[s][3] + h.bingpai[s][4]
                 + h.bingpai[s][5] + h.bingpai[s][6] + h.bingpai[s][7]
                 + h.bingpai[s][8] + h.bingpai[s][9]
    IN  h.bingpai.hid + Of("m") + Of("p") + Of("s") + Of("z") + 3 * Len(h.fulou)

\* the hand once the throw of a call is caught
Caught(h) == [ h EXCEPT !.thrown = FALSE ]

handRest == <<rule, shan, last, nGangzimo, nKaigang, nZimo, game, drv, he, nFulou, board>>

InitHand ==
    /\ rule = DefaultRule
    /\ shan = ShanNew(rule)
    /\ last = [ op |-> "new" ]
    /\ nGangzimo = 0
    /\ nKaigang = 0
    /\ nZimo = 0
    /\ game = NoGame
    /\ drv = NoDrv
    /\ shoupai \in { h \in { ShoupaiFromString(s) : s \in StartStrings } : ~h.thrown }
    /\ he = HeNew
    /\ nFulou = NoFulou
    /\ board = BoardNew

\* The calls follow the turn as the game makes them: a hand of MaxPai tiles
\* discards or declares a kan, a smaller one draws or calls; a call that
\* throws leaves the hand as the throw left it.
HZimo ==
    \E p \in ZimoTiles, check \in BOOLEAN :
        /\ (check /\ shoupai.zimo # << >>) \/ NPaiAll(shoupai) < MaxPai
        /\ shoupai' = Caught(ShoupaiZimo(shoupai, p, check))
        /\ UNCHANGED handRest

HDapai ==
    \E p \in DapaiTiles, check \in BOOLEAN :
        /\ (check /\ shoupai.zimo = << >>) \/ NPaiAll(shoupai) = MaxPai
        /\ shoupai' = Caught(ShoupaiDapai(shoupai, p, check))
        /\ UNCHANGED handRest

HFulou ==
    \E m \in FulouMelds, check \in BOOLEAN :
        /\ (check /\ shoupai.zimo # << >>) \/ NPaiAll(shoupai) < MaxPai
        /\ shoupai' = Caught(ShoupaiFulou(shoupai, m, check))
        /\ UNCHANGED handRest

HGang ==
    \E m \in GangMelds, check \in BOOLEAN :
        /\ (check /\ shoupai.zimo = << >>) \/ NPaiAll(shoupai) = MaxPai
        /\ shoupai' = Caught(ShoupaiGang(shoupai, m, check))
        /\ UNCHANGED handRest

\* Shoupai.fromString (the method): the hand is replaced by the hand read
\* from a string, here its own string
HFromString ==
    /\ ~ShoupaiFromString(ShoupaiToString(shoupai)).thrown
    /\ shoupai' = ShoupaiFromString(ShoupaiToString(shoupai))
    /\ UNCHANGED handRest

NextHand == HZimo \/ HDapai \/ HFulou \/ HGang \/ HFromString

SpecHand == InitHand /\ [][NextHand]_vars

(***************************************************************************)
(* Claims about the hand                                                   *)
(***************************************************************************)
\* the fields of two hands agree
SameHand(h1, h2) ==
    /\ h1.bingpai = h2.bingpai
    /\ h1.fulou = h2.fulou
    /\ h1.zimo = h2.zimo
    /\ h1.lizhi = h2.lizhi

\* the tile of a token, without its markers
TileOf(p) == IF Len(p) >= 2 THEN << p[1], p[2] >> ELSE p

\* C25 as stated: for every hand waiting for its draw and every tile t
\* (visible, red five or "_") that zimo(t) accepts, the hand read back from
\* the string of the hand after the draw equals that hand: same concealed
\* counts, hidden count, melds, draw marker and riichi flag.
C25_AsStated ==
    shoupai.zimo = << >> /\ NPaiAll(shoupai) = MaxPai - 1 =>
        \A t \in HandTiles :
            \A h \in { ShoupaiZimo(shoupai, t, TRUE) } :
                ~h.thrown =>
                    \A r \in { ShoupaiFromString(ShoupaiToString(h)) } :
                        ~r.thrown /\ SameHand(r, h)

\* C26 as stated: in every hand made by the constructor, by fromString or
\* by zimo, dapai, fulou and gang calls, no tile kind is held more than
\* four times (a red five counting as a five) and no suit holds more red
\* fives than fives.
C26_AsStated ==
    \A s \in { "m", "p", "s", "z" } :
        /\ \A n \in 1 .. 9 : shoupai.bingpai[s][n] <= 4
        /\ shoupai.bingpai[s][0] <= shoupai.bingpai[s][5]

\* C27 as stated: once the hand is in riichi, dapai(p, true) throws for
\* every tile p other than the tile just drawn and leaves the hand as it is.
C27_AsStated ==
    shoupai.lizhi /\ Len(shoupai.zimo) = 2 =>
        \A p \in DapaiTiles :
            TileOf(p) # shoupai.zimo =>
                ShoupaiDapai(shoupai, p, TRUE) = Throw(shoupai)

\* the hand holds the tile p, or a hidden tile that stands for it
Holds(h, p) ==
    LET b == h.bingpai[p[1]]
        n == Num(p[2])
    IN  \/ h.bingpai.hid > 0
        \/ n = 5 /\ b[5] > b[0]
        \/ n # 5 /\ b[n] > 0

\* C27: once the hand is in riichi and holds a draw, get_dapai returns no
\* tile but the tile just drawn, marked as discarded from the draw; dapai
\* itself does not look at the riichi: dapai(p, true) throws only for a
\* token that is no tile and for a tile the hand does not hold, and then
\* leaves the hand as it is.
C27_RiichiDiscard ==
    shoupai.lizhi /\ shoupai.zimo # << >> =>
        /\ \A check \in BOOLEAN :
               ShoupaiGetDapai(shoupai, check)
               = [ null |-> FALSE,
                   dapai |-> IF Len(shoupai.zimo) = 2
                             THEN << shoupai.zimo \o << "_" >> >> ELSE << >> ]
        /\ \A p \in DapaiTiles :
               \A h \in { ShoupaiDapai(shoupai, p, TRUE) } :
                   /\ h.thrown <=> (~ValidPai(p) \/ ~Holds(shoupai, p))
                   /\ h.thrown => h = Throw(shoupai)
                   /\ ~h.thrown => h.zimo = << >> /\ h.lizhi

\* a hand in riichi that drew a tile and may still lose another one by dapai
C27_Witness ==
    /\ shoupai.lizhi /\ Len(shoupai.zimo) = 2
    /\ ShoupaiGetDapai(shoupai, TRUE).dapai = << shoupai.zimo \o << "_" >> >>
    /\ \E p \in DapaiTiles :
           TileOf(p) # shoupai.zimo /\ ~ShoupaiDapai(shoupai, p, TRUE).thrown

(***************************************************************************)
(* Shanten number and waits (src/src/util/xiangting.ts)                    *)
(***************************************************************************)
\* Infinity
Inf == 99

SetMin(S) == CHOOSE x \in S : \A y \in S : x <= y

\* _xiangting(m, d, g, j)
XiangtingOf(m0, d0, g0, j) ==
    LET n == IF j THEN 4 ELSE 5
        m == Min2(m0, 4)
        d1 == IF m0 > 4 THEN d0 + m0 - 4 ELSE d0
        g1 == IF m + d1 > 4 THEN g0 + m + d1 - 4 ELSE g0
        d2 == IF m + d1 > 4 THEN 4 - m ELSE d1
        g == IF m + d2 + g1 > n THEN n - m - d2 ELSE g1
        d == IF j THEN d2 + 1 ELSE d2
    IN  13 - m * 3 - d * 2 - g

\* the loop of dazi() from the number n on
RECURSIVE DaziFrom(_, _, _, _, _)
DaziFrom(b, n, n_pai, n_dazi, n_guli) ==
    IF n > 9 THEN << 0, n_dazi + (n_pai \div 2), n_guli + (n_pai % 2) >>
    ELSE IF n <= 7 /\ b[n + 1] = 0 /\ b[n + 2] = 0
    THEN DaziFrom(b, n + 1, 0, n_dazi + ((n_pai + b[n]) \div 2),
                  n_guli + ((n_pai + b[n]) % 2))
    ELSE DaziFrom(b, n + 1, n_pai + b[n], n_dazi, n_guli)

\* dazi(bingpai): << melds, partial melds, single tiles >>, twice
Dazi(b) == [ a |-> DaziFrom(b, 1, 0, 0, 0), b |-> DaziFrom(b, 1, 0, 0, 0) ]

\* the two comparisons of mianzi(): r has one meld more than it counts
Better(max, r) ==
    LET ra == [ r.a EXCEPT ![1] = @ + 1 ]
        rb == [ r.b EXCEPT ![1] = @ + 1 ]
    IN  [ a |-> IF ra[3] < max.a[3] \/ (ra[3] = max.a[3] /\ ra[2] < max.a[2])
                THEN ra ELSE max.a,
          b |-> IF rb[1] > max.b[1] \/ (rb[1] = max.b[1] /\ rb[2] > max.b[2])
                THEN rb ELSE max.b ]

\* mianzi(bingpai, n)
RECURSIVE Mianzi(_, _)
Mianzi(b, n) ==
    IF n > 9 THEN Dazi(b)
    ELSE LET Shun(max) ==
                 IF n <= 7 /\ b[n] > 0 /\ b[n + 1] > 0 /\ b[n + 2] > 0
                 THEN Better(max, Mianzi([ b EXCEPT ![n] = @ - 1, ![n + 1] = @ - 1,
                                                    ![n + 2] = @ - 1 ], n))
                 ELSE max
             Ke(max) ==
                 IF b[n] >= 3 THEN Better(max, Mianzi([ b EXCEPT ![n] = @ - 3 ], n))
                 ELSE max
         IN  Ke(Shun(Mianzi(b, n + 1)))

\* mianzi_all(shoupai, jiangpai), on the counts bp and the number of melds
MianziAll(bp, n_fulou, jiangpai) ==
    LET z == << Cardinality({ n \in 1 .. 7 : bp.z[n] >= 3 }),
                Cardinality({ n \in 1 .. 7 : bp.z[n] = 2 }),
                Cardinality({ n \in 1 .. 7 : bp.z[n] = 1 }) >>
        All(rm, rp, rs) ==
            { XiangtingOf(n_fulou + m[1] + p[1] + s[1] + z[1],
                          m[2] + p[2] + s[2] + z[2],
                          m[3] + p[3] + s[3] + z[3], jiangpai) :
                m \in { rm.a, rm.b }, p \in { rp.a, rp.b }, s \in { rs.a, rs.b } }
    IN  SetMin({ 13 } \cup All(Mianzi(bp.m, 1), Mianzi(bp.p, 1), Mianzi(bp.s, 1)))

\* xiangting_yiban
XiangtingYiban(h) ==
    LET bp == h.bingpai
        pairs == { sn \in { "m", "p", "s", "z" } \X (1 .. 9) : bp[sn[1]][sn[2]] >= 2 }
        Out(min) == IF min = 0 - 1 /\ h.zimo # << >> /\ Len(h.zimo) > 2 THEN 0 ELSE min
    IN  Out(SetMin({ MianziAll(bp, Len(h.fulou), FALSE) }
                   \cup { MianziAll([ bp EXCEPT ![sn[1]][sn[2]] = @ - 2 ],
                                    Len(h.fulou), TRUE) : sn \in pairs }))

\* xiangting_qidui
XiangtingQidui(h) ==
    LET all == { "m", "p", "s", "z" } \X (1 .. 9)
        n_duizi == Min2(7, Cardinality({ sn \in all : h.bingpai[sn[1]][sn[2]] >= 2 }))
        n_guli == Cardinality({ sn \in all : h.bingpai[sn[1]][sn[2]] = 1 })
    IN  IF h.fulou # << >> THEN Inf
        ELSE 13 - n_duizi * 2 - Min2(n_guli, 7 - n_duizi)

\* xiangting_guoshi
XiangtingGuoshi(h) ==
    LET yaojiu == ({ "m", "p", "s" } \X { 1, 9 }) \cup ({ "z" } \X (1 .. 7))
        n_yaojiu == Cardinality({ sn \in yaojiu : h.bingpai[sn[1]][sn[2]] >= 1 })
        n_duizi == Cardinality({ sn \in yaojiu : h.bingpai[sn[1]][sn[2]] >= 2 })
    IN  IF h.fulou # << >> THEN Inf
        ELSE IF n_duizi > 0 THEN 12 - n_yaojiu ELSE 13 - n_yaojiu

\* xiangting
Xiangting(h) ==
    Min2(XiangtingYiban(h), Min2(XiangtingGuoshi(h), XiangtingQidui(h)))

\* tingpai(shoupai, f_xiangting): f_xiangting is "xiangting" or, when the
\* caller leaves the argument out, "undefined", and the call of a value
\* that is no function throws a TypeError
Tingpai(h, f_xiangting) ==
    LET Of(s, n, n_xiangting) ==
            IF n > Top(s) \/ h.bingpai[s][n] >= 4 THEN << >>
            ELSE IF Xiangting([ h EXCEPT !.bingpai[s][n] = @ + 1 ]) < n_xiangting
                 THEN << << s, Dig(n) >> >> ELSE << >>
        OfSuit(s, x) == Of(s, 1, x) \o Of(s, 2, x) \o Of(s, 3, x) \o Of(s, 4, x)
                        \o Of(s, 5, x) \o Of(s, 6, x) \o Of(s, 7, x)
                        \o Of(s, 8, x) \o Of(s, 9, x)
        Pai(x) == OfSuit("m", x) \o OfSuit("p", x) \o OfSuit("s", x) \o OfSuit("z", x)
    IN  IF h.zimo # << >> THEN [ null |-> TRUE, thrown |-> FALSE, pai |-> << >> ]
        ELSE IF f_xiangting = "undefined"
        THEN [ null |-> FALSE, thrown |-> TRUE, pai |-> << >> ]
        ELSE [ null |-> FALSE, thrown |-> FALSE, pai |-> Pai(Xiangting(h)) ]

\* Util.tingpai(shoupai), as Game.dapai, Game.allow_lizhi, Game.pingju and
\* Player.hulepai call it
TingpaiAlone(h) == Tingpai(h, "undefined")

\* the tile kinds held less than four times whose addition lowers the
\* shanten number of the hand
Lowering(h) ==
    LET Of(x) == { sn \in { "m", "p", "s", "z" } \X (1 .. 9) :
                     /\ sn[2] <= Top(sn[1])
                     /\ h.bingpai[sn[1]][sn[2]] < 4
                     /\ Xiangting([ h EXCEPT !.bingpai[sn[1]][sn[2]] = @ + 1 ]) < x }
    IN  { << sn[1], Dig(sn[2]) >> : sn \in Of(Xiangting(h)) }

\* C28 as stated: for a hand without a draw, tingpai called with the hand
\* alone returns exactly the tile kinds held less than four times whose
\* addition lowers the shanten number, none of them a red five; for a hand
\* that holds a draw it returns null.
C28_AsStated ==
    \A r \in { TingpaiAlone(shoupai) } :
        IF shoupai.zimo # << >> THEN r.null
        ELSE /\ ~r.null
             /\ ~r.thrown
             /\ \A i \in 1 .. Len(r.pai) : r.pai[i][2] # "0"
             /\ { r.pai[i] : i \in 1 .. Len(r.pai) } = Lowering(shoupai)

(***************************************************************************)
(* The rule queries of Player (src/src/player.ts) and the statics of Game  *)
(* they call.  An argument is a JavaScript value with its type, since the  *)
(* statics receive their arguments by position.                            *)
(***************************************************************************)
JsRule(r) == [ type |-> "Rule", v |-> r ]

JsShoupai(h) == [ type |-> "Shoupai", v |-> h ]

JsString(p) == [ type |-> "string", v |-> p ]

JsNumber(n) == [ type |-> "number", v |-> n ]

JsUndefined == [ type |-> "undefined" ]

\* the outcomes of a query: a list of melds, null, or an exception
Melds(ms) == [ thrown |-> FALSE, null |-> FALSE, mianzi |-> ms ]

NullMelds == [ thrown |-> FALSE, null |-> TRUE, mianzi |-> << >> ]

ThrownMelds == [ thrown |-> TRUE, null |-> FALSE, mianzi |-> << >> ]

\* Shoupai.get_peng_mianzi(p): valid_pai(p) and p.match(..) throw a
\* TypeError on a p that is no string
ShoupaiGetPengMianzi(h, a_p) ==
    LET Of(p, s, n, d) ==
            LET b == h.bingpai[s]
            IN  IF b[n] < 2 THEN << >>
                ELSE (IF n = 5 /\ b[0] >= 2
                      THEN << << s, "0", "0", p[2], d >> >> ELSE << >>)
                  \o (IF n = 5 /\ b[0] >= 1 /\ b[5] - b[0] >= 1
                      THEN << << s, "5", "0", p[2], d >> >> ELSE << >>)
                  \o (IF n # 5 \/ b[5] - b[0] >= 2
                      THEN << << s, Dig(n), Dig(n), p[2], d >> >> ELSE << >>)
    IN  IF h.zimo # << >> THEN NullMelds
        ELSE IF a_p.type # "string" THEN ThrownMelds
        ELSE IF ~ValidPai(a_p.v) THEN ThrownMelds
        ELSE IF a_p.v[Len(a_p.v)] \notin Dirs THEN ThrownMelds
        ELSE IF h.lizhi THEN Melds(<< >>)
        ELSE Melds(Of(a_p.v, a_p.v[1],
                      IF Num(a_p.v[2]) = 0 THEN 5 ELSE Num(a_p.v[2]),
                      a_p.v[Len(a_p.v)]))

\* Game.get_peng_mianzi(rule, shoupai, p, paishu): the call of
\* shoupai.get_peng_mianzi throws a TypeError on a shoupai that is no hand
GameGetPengMianzi(a_rule, a_shoupai, a_p, a_paishu) ==
    IF a_shoupai.type # "Shoupai" THEN ThrownMelds
    ELSE LET Out(mianzi) ==
                 IF mianzi.thrown \/ mianzi.null THEN mianzi
                 ELSE IF a_paishu.type = "number" /\ a_paishu.v = 0
                      THEN Melds(<< >>) ELSE mianzi
         IN  Out(ShoupaiGetPengMianzi(a_shoupai.v, a_p))

\* Player.get_peng_mianzi(shoupai, p) of a player whose board shows
\* paishu live tiles:  Game.get_peng_mianzi(shoupai, p, this.shan.paishu)
PlayerGetPengMianzi(paishu, h, p) ==
    GameGetPengMianzi(JsShoupai(h), JsString(p), JsNumber(paishu), JsUndefined)

\* the discards a hand is asked about, with the seat they come from
PengTiles ==
    { << "m", "5", "-" >>, << "m", "0", "=" >>, << "m", "6", "+" >>,
      << "z", "1", "-" >> }

\* the live counts a player's board shows
Paishus == { 0, 1 }

\* C29 as stated: a rule query of Player returns what the static of Game
\* of the same name returns for the player's rule, the given hand and tile
\* and the live count of the player's board; here for get_peng_mianzi.
C29_AsStated ==
    \A paishu \in Paishus, p \in PengTiles :
        PlayerGetPengMianzi(paishu, shoupai, p)
            = GameGetPengMianzi(JsRule(rule), JsShoupai(shoupai),
                                JsString(p), JsNumber(paishu))

\* some hand is offered a pon by the static of Game
C29_PengOffered ==
    \E p \in PengTiles :
        GameGetPengMianzi(JsRule(rule), JsShoupai(shoupai), JsString(p),
                          JsNumber(1)).mianzi # << >>

(***************************************************************************)
(* He (src/src/he.ts): the discards of one seat.  _find is the set of its  *)
(* keys, a suit and a number.                                              *)
(***************************************************************************)
\* p.replace(/[\+\=\-]$/, "")
StripDir(p) == IF p # << >> /\ p[Len(p)] \in Dirs THEN SubSeq(p, 1, Len(p) - 1) ELSE p

\* p[0] + (+p[1] || 5)
FindKey(p) == << p[1], IF IsDigit(p[2]) /\ Num(p[2]) # 0 THEN Num(p[2]) ELSE 5 >>

\* He.dapai(p) with the key p[0] + p[1], a red five kept as 0
HeDapaiRawKey(h, p) ==
    IF ~ValidPai(p) THEN Throw(h)
    ELSE [ h EXCEPT !.pai = Append(@, StripDir(p)),
                    !.find = @ \cup { << p[1], Num(p[2]) >> } ]

\* He.dapai(p)
HeDapai(h, p) ==
    IF ~ValidPai(p) THEN Throw(h)
    ELSE [ h EXCEPT !.pai = Append(@, StripDir(p)),
                    !.find = @ \cup { FindKey(p) } ]

\* m.match(/\d(?=[\+\=\-])/): the first digit a direction flag follows
FlaggedDigit(m) ==
    LET I == { i \in 1 .. Len(m) - 1 : IsDigit(m[i]) /\ m[i + 1] \in Dirs }
    IN  IF I = {} THEN << >> ELSE << m[SetMin(I)] >>

\* m.match(/[\+\=\-]/): the first direction flag
FirstDir(m) ==
    LET I == { i \in 1 .. Len(m) : m[i] \in Dirs }
    IN  IF I = {} THEN << >> ELSE << m[SetMin(I)] >>

\* He.fulou(m); on an empty pile this._pai[-1].substr throws a TypeError
HeFulou(h, m) ==
    LET n == Len(h.pai)
    IN  IF ValidMianzi(m) = << >> THEN Throw(h)
        ELSE IF FirstDir(m) = << >> THEN Throw(h)
        ELSE IF n = 0 THEN Throw(h)
        ELSE IF SubSeq(h.pai[n], 1, 2) # << m[1] >> \o FlaggedDigit(m) THEN Throw(h)
        ELSE [ h EXCEPT !.pai[n] = @ \o FirstDir(m) ]

\* He.find(p)
HeFind(h, p) == FindKey(p) \in h.find

(***************************************************************************)
(* SpecHe: one pile under any calls of dapai and fulou.                    *)
(***************************************************************************)
\* the longest pile of the model
MaxHe == 3

\* the most direction flags the model puts on one entry
MaxFlag == 2

NFlag(e) == Cardinality({ j \in 1 .. Len(e) : e[j] \in Dirs })

HeTiles ==
    { << "m", "1" >>, << "m", "1", "_" >>, << "m", "2", "*" >>,
      << "m", "0", "_", "*" >>, << "m", "5", "-" >>, << "z", "1", "=" >>,
      << "z", "8" >>, << "m", "1", "+", "_" >> }

HeMelds ==
    { << "m", "1", "1", "1", "+" >>, << "m", "1", "2", "-", "3" >>,
      << "m", "5", "5", "0", "=" >>, << "m", "5", "0", "5", "-" >>,
      << "z", "1", "1", "1", "-" >>, << "m", "1", "1", "1", "1" >>,
      << "m", "1", "-" >>, << "m", "1", "1", "1", "+", "1" >> }

heRest == <<rule, shan, last, nGangzimo, nKaigang, nZimo, game, drv, shoupai, nFulou, board>>

InitHe ==
    /\ rule = DefaultRule
    /\ shan = ShanNew(rule)
    /\ last = [ op |-> "new" ]
    /\ nGangzimo = 0
    /\ nKaigang = 0
    /\ nZimo = 0
    /\ game = NoGame
    /\ drv = NoDrv
    /\ shoupai = NoShoupai
    /\ he = HeNew
    /\ nFulou = NoFulou
    /\ board = BoardNew

\* a call that throws is caught and leaves the pile as the call left it
EDapai == \E p \in HeTiles :
        /\ Len(he.pai) < MaxHe \/ ~ValidPai(p)
        /\ he' = Caught(HeDapai(he, p))
        /\ UNCHANGED heRest

EFulou == \E m \in HeMelds :
        /\ IF HeFulou(he, m).thrown THEN TRUE
           ELSE NFlag(he.pai[Len(he.pai)]) < MaxFlag
        /\ he' = Caught(HeFulou(he, m))
        /\ UNCHANGED heRest

NextHe == EDapai \/ EFulou

SpecHe == InitHe /\ [][NextHe]_vars

\* the entry e is the tile p without a trailing direction flag
Stripped(e, p) ==
    /\ e = << >> \/ e[Len(e)] \notin Dirs
    /\ e = p \/ \E d \in Dirs : p = e \o << d >>

\* dapai: one entry more, p with its markers and without a direction flag;
\* no tile, a throw and the pile as before
C31_Dapai ==
    \A p \in HeTiles : \A r \in { HeDapai(he, p) } :
        IF ValidPai(p)
        THEN /\ ~r.thrown
             /\ Len(r.pai) = Len(he.pai) + 1
             /\ SubSeq(r.pai, 1, Len(he.pai)) = he.pai
             /\ Stripped(r.pai[Len(r.pai)], p)
        ELSE r.thrown /\ r.pai = he.pai /\ r.find = he.find

\* the called tile of the meld m: its suit and the digit the flag follows
Called(m) == \E i \in 2 .. Len(m) - 1 : m[i + 1] \in Dirs

\* fulou: as many entries as before, the flag of m on the last entry only;
\* a throw for no meld, a meld without flag, a called tile that is not the
\* last discard
C31_Fulou ==
    \A m \in HeMelds : \A r \in { HeFulou(he, m) } :
        /\ Len(r.pai) = Len(he.pai)
        /\ \A i \in 1 .. Len(he.pai) - 1 : r.pai[i] = he.pai[i]
        /\ r.find = he.find
        /\ IF r.thrown THEN r.pai = he.pai
           ELSE \E d \in Dirs :
                  /\ \E i \in 1 .. Len(m) : m[i] = d
                  /\ r.pai[Len(r.pai)] = he.pai[Len(he.pai)] \o << d >>
        /\ ( \/ ValidMianzi(m) = << >>
             \/ \A i \in 1 .. Len(m) : m[i] \notin Dirs
             \/ he.pai = << >>
             \/ \A i \in 2 .. Len(m) - 1 :
                  m[i + 1] \in Dirs =>
                      SubSeq(he.pai[Len(he.pai)], 1, 2) # << m[1], m[i] >> )
           => r.thrown

\* every entry of the pile is a tile with at most one direction flag
C31_Entries ==
    \A i \in 1 .. Len(he.pai) :
        /\ ValidPai(he.pai[i])
        /\ NFlag(he.pai[i]) <= 1

\* C31 as stated: dapai appends one entry that keeps the markers of p and
\* drops its direction flag, and throws without a change for no tile; fulou
\* keeps the number of entries, puts the flag of m on the last entry only
\* and throws for no meld, a meld without flag or a called tile that is not
\* the last discard; after any calls every entry is a tile with at most one
\* direction flag.
C31_AsStated == C31_Dapai /\ C31_Fulou /\ C31_Entries

\* the tiles asked for, with and without markers
FindTiles ==
    { << "m", "1" >>, << "m", "2" >>, << "m", "5" >>, << "m", "0", "_", "*" >>,
      << "m", "5", "-" >>, << "z", "1" >>, << "z", "1", "_" >> }

\* suit and number of a tile, a red five counting as 5
KindOf(p) == << p[1], IF p[2] = "0" THEN "5" ELSE p[2] >>

\* C32: find(p) is true exactly when a tile of the suit and number of p, a
\* red five counting as 5, was discarded to the pile, whatever the markers
\* of the entry and of p and also when the discard was called; and once
\* true for a tile it stays true.
C32_Find ==
    /\ [](\A p \in FindTiles :
            HeFind(he, p) <=> \E i \in 1 .. Len(he.pai) : KindOf(he.pai[i]) = KindOf(p))
    /\ [][\A p \in FindTiles : HeFind(he, p) => HeFind(he', p)]_vars

\* a red five that was discarded and called is found as a five
C32_Witness ==
    \E i \in 1 .. Len(he.pai) :
        /\ he.pai[i][2] = "0"
        /\ NFlag(he.pai[i]) = 1
        /\ HeFind(he, << "m", "5" >>)

(***************************************************************************)
(* Shan.zhenbaopai (src/src/shan.ts): the dora of an indicator.            *)
(***************************************************************************)
\* zhenbaopai with the honours in one cycle of seven
ZhenbaopaiOneCycle(p) ==
    IF ~ValidPai(p) THEN [ thrown |-> TRUE, pai |-> << >> ]
    ELSE LET s == p[1]
             n == IF Num(p[2]) = 0 THEN 5 ELSE Num(p[2])
         IN  [ thrown |-> FALSE,
               pai |-> IF s = "z" THEN << s, Dig((n % 7) + 1) >>
                       ELSE << s, Dig((n % 9) + 1) >> ]

\* Shan.zhenbaopai(p)
Zhenbaopai(p) ==
    IF ~ValidPai(p) THEN [ thrown |-> TRUE, pai |-> << >> ]
    ELSE LET s == p[1]
             n == IF Num(p[2]) = 0 THEN 5 ELSE Num(p[2])
         IN  [ thrown |-> FALSE,
               pai |-> IF s = "z"
                       THEN IF n < 5 THEN << s, Dig((n % 4) + 1) >>
                            ELSE << s, Dig(((n - 4) % 3) + 5) >>
                       ELSE << s, Dig((n % 9) + 1) >> ]

\* the indicators asked: every suit and digit, bare and with markers
Indicators ==
    { << s, Dig(n) >> \o k :
        s \in { "m", "p", "s", "z" }, n \in 0 .. 9,
        k \in { << >>, << "_" >>, << "*", "-" >> } }

baopaiRest == <<rule, shan, nGangzimo, nKaigang, nZimo, game, drv, shoupai, he, nFulou, board>>

InitBaopai ==
    /\ rule = DefaultRule
    /\ shan = ShanNew(rule)
    /\ last \in { [ op |-> "new", p |-> p, out |-> [ thrown |-> FALSE, pai |-> << >> ] ] :
                  p \in Indicators }
    /\ nGangzimo = 0
    /\ nKaigang = 0
    /\ nZimo = 0
    /\ game = NoGame
    /\ drv = NoDrv
    /\ shoupai = NoShoupai
    /\ he = HeNew
    /\ nFulou = NoFulou
    /\ board = BoardNew

CallZhenbaopai ==
    /\ last.op = "new"
    /\ last' = [ last EXCEPT !.op = "zhenbaopai", !.out = Zhenbaopai(last.p) ]
    /\ UNCHANGED baopaiRest

NextBaopai == CallZhenbaopai

SpecBaopai == InitBaopai /\ [][NextBaopai]_vars

\* the classes of the tiles, each in its cyclic order
Cycles ==
    { << "1", "2", "3", "4", "5", "6", "7", "8", "9" >> }

HonourCycles == { << "1", "2", "3", "4" >>, << "5", "6", "7" >> }

\* y follows x in the cycle c
Follows(c, x, y) ==
    \E i \in 1 .. Len(c) : c[i] = x /\ c[(i % Len(c)) + 1] = y

\* C33: zhenbaopai(p) is the cyclic successor of p within its class for
\* every valid tile (9 wraps to 1 and a red five gives 6 in a numbered
\* suit, north wraps to east, red to white), and it throws for every
\* invalid tile.
C33_Successor ==
    last.op = "zhenbaopai" =>
        IF \/ last.p[1] \in { "m", "p", "s" }
           \/ last.p[1] = "z" /\ last.p[2] \in { "1", "2", "3", "4", "5", "6", "7" }
        THEN /\ ~last.out.thrown
             /\ Len(last.out.pai) = 2
             /\ last.out.pai[1] = last.p[1]
             /\ \E c \in IF last.p[1] = "z" THEN HonourCycles ELSE Cycles :
                    Follows(c, IF last.p[2] = "0" THEN "5" ELSE last.p[2],
                            last.out.pai[2])
        ELSE last.out.thrown

\* the dora of the indicator red dragon is the white dragon
C33_Witness ==
    /\ last.op = "zhenbaopai"
    /\ SubSeq(last.p, 1, 2) = << "z", "7" >>
    /\ last.out = [ thrown |-> FALSE, pai |-> << "z", "5" >> ]

(***************************************************************************)
(* Claims about the points of a whole game (Spec).                         *)
(***************************************************************************)
\* rule({ originPoint: 1000 }): a riichi or a penalty ends the game
PointRules == { [ DefaultRule EXCEPT !.originPoint = 1000 ] }

InitPoints ==
    /\ rule \in PointRules
    /\ shan = ShanNew(rule)
    /\ last = [ op |-> "new", ok |-> TRUE, weikaigang |-> FALSE,
                closed |-> FALSE, paishu |-> NPai - NWangpai, nGangzimo |-> 0 ]
    /\ nGangzimo = 0 /\ nKaigang = 0 /\ nZimo = 0
    /\ game = GameNew(rule)
    /\ drv = NoDrv
    /\ shoupai = NoShoupai
    /\ he = HeNew
    /\ nFulou = NoFulou
    /\ board = BoardNew

SpecPoints == InitPoints /\ [][Next]_vars

\* C34: points are conserved over a game: at every broadcast the scores of
\* the four seats and 1000 for every riichi stick of the pool make 4 times
\* originPoint, and at jieju, where the sticks left go to the first seat of
\* the ranking, the four final scores make 4 times originPoint.
C34_Conserved ==
    game.status # "" =>
        IF game.status = "jieju"
        THEN Sum4(game.defen) = 4 * rule.originPoint
        ELSE Sum4(game.defen) + 1000 * game.lizhibang = 4 * rule.originPoint

\* a game ends with a riichi stick left in the pool and scores that moved
C34_Witness ==
    /\ game.status = "jieju"
    /\ game.lizhibang > 0
    /\ \E id \in Seats : game.defen[id] > rule.originPoint + 1000
    /\ Sum4(game.defen) = 4 * rule.originPoint

\* the values of a yakuman under pao, for each place of the liable seat
PaoValues == { v \in HuleValues : v.ym > 0 /\ v.pao # "" }

\* C35 as stated: in the hule entry of a yakuman under pao the seat written
\* as the baojia of the yaku is the seat get_defen debits for the pao part,
\* for the liable seat next to, opposite and before the winner: the seat
\* written pays at least the pao part (the whole of it at a self-draw, half
\* of it at a ron), in the entries of the record and for every value,
\* winner, discarder, honba count and pool.
C35_AsStated ==
    /\ \A k \in 1 .. Len(game.log) :
          game.log[k].type = "hule" /\ game.log[k].hupai_baojia >= 0 =>
              game.log[k].fenpei[game.log[k].hupai_baojia] < 0
    /\ game.status = "kaiju" =>
          \A v \in PaoValues, menfeng \in Seats, rong \in {"", "+", "=", "-"},
             chang \in 0 .. MaxChang, lizhi \in 0 .. MaxLizhibang :
             GetDefen(v, menfeng, rong, chang, lizhi)
                     .fenpei[ParseBaojiaStr2Int(menfeng, v.pao)]
                 <= 0 - ((8000 * (IF menfeng = 0 THEN 6 ELSE 4))
                            \div (IF rong = "" THEN 1 ELSE 2))

\* the same for a liable seat opposite the winner only
C35_Opposite ==
    game.status = "kaiju" =>
        \A v \in PaoValues, menfeng \in Seats, rong \in {"", "+", "=", "-"},
           chang \in 0 .. MaxChang, lizhi \in 0 .. MaxLizhibang :
           v.pao = "=" =>
               GetDefen(v, menfeng, rong, chang, lizhi)
                       .fenpei[ParseBaojiaStr2Int(menfeng, v.pao)]
                   <= 0 - ((8000 * (IF menfeng = 0 THEN 6 ELSE 4))
                              \div (IF rong = "" THEN 1 ELSE 2))

(***************************************************************************)
(* Claims about the wall of a round (SpecRound).                           *)
(***************************************************************************)
\* C36: during a round no operation of the wall throws, whatever the seats
\* reply: no zimo at live count 0, on a closed wall or before a pending
\* reveal, no gangzimo at live count 0 or for a fifth kan, no kaigang
\* without a pending reveal; and the kans of a round are at most 4.  An
\* operation that throws leaves the game in the state "error".
C36_WallNeverThrows ==
    /\ game.status # "error"
    /\ NGang(game) <= 4
    /\ game.status = "zimo" => ~game.shan.closed /\ ~game.shan.weikaigang
    /\ game.status = "gangzimo" =>
          /\ ~game.shan.closed
          /\ game.shan.weikaigang => rule.enableKandoraAfterRide
                                     /\ game.gang \in { "daming", "jia" }
    /\ game.status \in { "zimo", "gangzimo", "dapai", "fulou", "gang" } =>
          GPaishu(game) >= 0

\* the fourth kan of a round took the last tile of the wall
C36_Witness ==
    /\ game.status = "gangzimo"
    /\ NGang(game) = 4
    /\ GPaishu(game) = 0

(***************************************************************************)
(* SpecTerm: one round of the game with the melds of the seats counted,    *)
(* under the default rule.  A hand of 13 tiles that made four melds holds  *)
(* one tile and can call no further tile (Shoupai.get_chi_mianzi,          *)
(* get_peng_mianzi and get_gang_mianzi need two or three tiles of the      *)
(* hand), so a reply that calls is a move for a seat with fewer melds      *)
(* only.  Every broadcast is answered by the four seats.                   *)
(***************************************************************************)
\* the melds a hand of 13 tiles can make
MaxFulou == 4

\* Live tiles of the wall after the deal in the round of SpecTerm.
LiveTerm == 3

\* The seats whose hands were dealt tiles to call with in SpecTerm.
Callers == {0, 1}

\* the hand of seat l can still make a meld
CanCall(g, l) == l \in Callers /\ nFulou[l] < MaxFulou

TermZimoInputs(g) ==
    { in \in ZimoInputs(g) :
        in.r.kind = "gang" /\ in.r.ok =>
            IF in.r.m = "an" THEN CanCall(g, g.lunban) ELSE nFulou[g.lunban] > 0 }

TermDapaiInputs(g) ==
    { in \in DapaiInputs(g) :
        \A id \in Seats :
            in.rep[id].kind = "fulou" /\ in.rep[id].ok => CanCall(g, SeatOf(g, id)) }

\* _fulou.length of the seats after a step to the game g
CountFulou(g) ==
    IF g.status = "fulou" \/ (g.status = "gang" /\ g.gang = "an")
    THEN [ nFulou EXCEPT ![g.lunban] = @ + 1 ]
    ELSE nFulou

termRest == <<rule, shan, last, nGangzimo, nKaigang, nZimo, drv, shoupai, he, board>>

InitTerm ==
    /\ rule = DefaultRule
    /\ shan = ShanNew(rule)
    /\ last = [ op |-> "new", ok |-> TRUE, weikaigang |-> FALSE,
                closed |-> FALSE, paishu |-> NPai - NWangpai, nGangzimo |-> 0 ]
    /\ nGangzimo = 0 /\ nKaigang = 0 /\ nZimo = 0
    /\ game = GameNew(rule)
    /\ drv = NoDrv
    /\ shoupai = NoShoupai
    /\ he = HeNew
    /\ nFulou = NoFulou
    /\ board = BoardNew

TKaiju ==
    /\ game.status = ""
    /\ \E q \in Qijias : game' = Kaiju(game, q)
    /\ UNCHANGED <<nFulou, termRest>>

TReplyKaiju ==
    /\ game.status = "kaiju"
    /\ game' = [ ReplyKaiju(game) EXCEPT !.shan.len = NWangpai + LiveTerm ]
    /\ nFulou' = NoFulou
    /\ UNCHANGED termRest

TReplyQipai ==
    /\ game.status = "qipai"
    /\ game' = ReplyQipai(game)
    /\ UNCHANGED <<nFulou, termRest>>

TReplyZimo ==
    /\ game.status \in {"zimo", "gangzimo"}
    /\ \E in \in TermZimoInputs(game), o \in Orders :
         /\ game' = ReplyZimo(game,
                       ReplyAll(NoReply, o,
                           [ id \in Seats |->
                               IF id = game.player_id[game.lunban]
                               THEN in.r ELSE Empty ]),
                       in.p, in.v)
         /\ nFulou' = CountFulou(game')
    /\ UNCHANGED termRest

TReplyDapai ==
    /\ game.status = "dapai"
    /\ \E in \in TermDapaiInputs(game), o \in Orders :
         /\ game' = ReplyDapai(game, ReplyAll(NoReply, o, in.rep),
                               in.v, in.ten, in.nag)
         /\ nFulou' = CountFulou(game')
    /\ UNCHANGED termRest

TReplyFulou ==
    /\ game.status = "fulou"
    /\ \E p \in Tiles(game), ok \in BOOLEAN, o \in Orders :
         game' = ReplyFulou(game,
                     ReplyAll(NoReply, o,
                         [ id \in Seats |->
                             IF id = game.player_id[game.lunban] /\ ok
                             THEN DapaiMsg(TRUE, p, FALSE, FALSE)
                             ELSE Empty ]),
                     p)
    /\ UNCHANGED <<nFulou, termRest>>

TReplyGang ==
    /\ game.status = "gang"
    /\ \E in \in GangInputs(game), o \in Orders :
         game' = ReplyGang(game, ReplyAll(NoReply, o, in.rep), in.v)
    /\ UNCHANGED <<nFulou, termRest>>

NextTerm ==
    \/ TKaiju \/ TReplyKaiju \/ TReplyQipai \/ TReplyZimo \/ TReplyDapai
    \/ TReplyFulou \/ TReplyGang

SpecTerm == InitTerm /\ [][NextTerm]_vars

\* the four seats always reply: the handler of a broadcast runs
SpecTermFair == SpecTerm /\ WF_vars(NextTerm)

ModeRules == { [ DefaultRule EXCEPT !.consecutiveMode = c ] : c \in 0 .. 3 }

\* Live tiles of the wall after the deal in the rounds of SpecModes.
LiveModes == 2

\* Rounds that are played in SpecModes.
RoundsModes == 2

\* The game g with the wall of a round just dealt cut to LiveModes tiles.
Dealt(g) ==
    IF g.status = "qipai"
    THEN [ g EXCEPT !.shan.len = NWangpai + LiveModes ]
    ELSE g

InitModes ==
    /\ rule \in ModeRules
    /\ shan = ShanNew(rule)
    /\ last = [ op |-> "new", ok |-> TRUE, weikaigang |-> FALSE,
                closed |-> FALSE, paishu |-> NPai - NWangpai, nGangzimo |-> 0 ]
    /\ nGangzimo = 0 /\ nKaigang = 0 /\ nZimo = 0
    /\ game = GameNew(rule)
    /\ drv = NoDrv
    /\ shoupai = NoShoupai
    /\ he = HeNew
    /\ nFulou = NoFulou
    /\ board = BoardNew

MReplyKaiju ==
    /\ game.status = "kaiju"
    /\ game' = Dealt(ReplyKaiju(game))
    /\ UNCHANGED gameRest

MReplyQipai ==
    /\ game.status = "qipai"
    /\ game.round <= RoundsModes
    /\ game' = ReplyQipai(game)
    /\ UNCHANGED gameRest

MReplyHule ==
    /\ game.status = "hule"
    /\ game' = Dealt(ReplyHule(game, V0))
    /\ UNCHANGED gameRest

MReplyPingju ==
    /\ game.status = "pingju"
    /\ game' = Dealt(ReplyPingju(game))
    /\ UNCHANGED gameRest

NextModes ==
    \/ GKaiju \/ MReplyKaiju \/ MReplyQipai \/ GReplyZimo \/ GReplyDapai
    \/ GReplyFulou \/ GReplyGang \/ MReplyHule \/ MReplyPingju

SpecModes == InitModes /\ [][NextModes]_vars

\* The number of the round's dealer: it goes up by one when the dealer
\* rotates.
SumJushu(g) == g.zhuangfeng * 4 + g.jushu

\* The dealer (seat 0) is among the winners of the round of g.
DealerWon(g) ==
    \E k \in 1 .. Len(g.log) : g.log[k].type = "hule" /\ g.log[k].l = 0

\* The draw the round of g ended by is the exhaustive one.
Exhaustive(g) == g.log[Len(g.log)].name \in { "huangpai", "nagashi" }

\* The hand of the dealer counts as tenpai at an exhaustive draw: it is
\* tenpai and, where tenpai is to be declared, declared or in riichi.
DealerTenpai(g, decl, ten) ==
    /\ 0 \in ten
    /\ rule.enableNoTenDeclared => (0 \in decl \/ g.lizhi[0] # 0)

C38_AfterHule ==
    game.status = "hule" /\ game.hule = << >> /\ game'.status # "hule" =>
        IF DealerWon(game) /\ rule.consecutiveMode > 0
        THEN /\ SumJushu(game') = SumJushu(game)
             /\ game'.changbang = game.changbang0 + 1
        ELSE /\ SumJushu(game') = SumJushu(game) + 1
             /\ game'.changbang = 0

C38_AfterPingju ==
    game.status = "pingju" /\ game'.status # "pingju" =>
        /\ game'.changbang = game.changbang + 1
        /\ game.changbang = game.changbang0
        /\ IF ~Exhaustive(game) \/ rule.consecutiveMode = 3
              \/ (rule.consecutiveMode = 2 /\ game.lianzhuang)
           THEN SumJushu(game') = SumJushu(game)
           ELSE SumJushu(game') = SumJushu(game) + 1

\* At the exhaustive draw of a round the dealer is kept (_lianzhuang)
\* under mode 3, and under mode 2 when the dealer's hand counts as tenpai.
C38_AtPingju ==
    game.status = "dapai" =>
        \A decl \in SUBSET Seats, ten \in SUBSET Seats, nag \in Nags :
            Pingju(game, "", decl, ten, nag).lianzhuang
                <=> \/ rule.consecutiveMode = 3
                    \/ /\ rule.consecutiveMode = 2
                       /\ DealerTenpai(game, decl, ten)

\* C38: with a game count of at least 1, after a hule the dealer stays and
\* honba becomes the round's honba + 1 when the dealer is among the winners
\* and consecutiveMode > 0, and the dealer rotates and honba becomes 0
\* otherwise; after every pingju honba goes up by 1, and the dealer stays
\* after an abortive draw, after an exhaustive draw with the dealer tenpai
\* under mode 2 and after every exhaustive draw under mode 3, and rotates
\* otherwise.
C38_DealerHonba ==
    /\ [](rule.gameCount >= 1 => C38_AtPingju)
    /\ [][rule.gameCount >= 1 => C38_AfterHule /\ C38_AfterPingju]_vars

\* the third round is dealt with the dealer of the first and honba 2, in a
\* game where only a win or an abortive draw keeps the dealer
C38_Witness ==
    /\ rule.consecutiveMode = 1
    /\ game.status = "qipai" /\ game.round = 3
    /\ game.changbang = 2
    /\ SumJushu(game) = 0

(***************************************************************************)
(* Board: the table a player or a viewer keeps from the messages of the    *)
(* game.  Its hands, discard piles and dora indicators are left out; its   *)
(* wall is the count BoardShan keeps.  _fenpei is null (some = FALSE) or   *)
(* the fenpei of the last hule message.                                    *)
(***************************************************************************)
\* the qipai message of the game g
QipaiMsg(g) ==
    [ zhuangfeng |-> g.zhuangfeng, jushu |-> g.jushu,
      changbang |-> g.changbang, lizhibang |-> g.lizhibang,
      defen |-> [ l \in Seats |-> g.defen[g.player_id[l]] ] ]

\* new BoardShan(baopai).paishu
BoardShanPaishu == NPai - 13 * 4 - NWangpai

\* kaiju(kaiju)
BoardKaiju(b, qijia) ==
    [ b EXCEPT !.qijia = qijia, !.zhuangfeng = 0, !.jushu = 0,
               !.changbang = 0, !.lizhibang = 0, !.defen = << >>,
               !.paishu = 0, !.player_id = [ l \in Seats |-> l ],
               !.lunban = 0 - 1 ]

\* qipai(qipai)
BoardQipai(b, q) ==
    LET pid == [ l \in Seats |-> (b.qijia + q.jushu + l) % 4 ]
    IN  [ b EXCEPT !.zhuangfeng = q.zhuangfeng, !.jushu = q.jushu,
                   !.changbang = q.changbang, !.lizhibang = q.lizhibang,
                   !.paishu = BoardShanPaishu,
                   !.player_id = pid,
                   !.defen = [ id \in Seats |->
                                 q.defen[CHOOSE l \in Seats : pid[l] = id] ],
                   !.lunban = 0 - 1,
                   !.lizhi = FALSE,
                   !.fenpei = [ some |-> FALSE, v |-> << >> ] ]

\* lizhi()
BoardLizhi(b) ==
    IF b.lizhi
    THEN [ b EXCEPT !.defen[b.player_id[b.lunban]] = @ - 1000,
                    !.lizhibang = @ + 1,
                    !.lizhi = FALSE ]
    ELSE b

\* zimo(zimo), for a gangzimo message too
BoardZimo(b, l) ==
    [ BoardLizhi(b) EXCEPT !.lunban = l, !.paishu = @ - 1 ]

\* dapai(dapai): star tells that dapai.p ends with "*"
BoardDapai(b, l, star) == [ b EXCEPT !.lunban = l, !.lizhi = star ]

\* fulou(fulou)
BoardFulou(b, l) == [ BoardLizhi(b) EXCEPT !.lunban = l ]

\* gang(gang)
BoardGang(b, l) == [ b EXCEPT !.lunban = l ]

\* hule(hule)
BoardHule(b, fenpei) ==
    LET b1 == IF b.fenpei.some
              THEN [ b EXCEPT
                       !.changbang = 0, !.lizhibang = 0,
                       !.defen =
                           [ id \in Seats |->
                               b.defen[id]
                               + b.fenpei.v[CHOOSE l \in Seats :
                                                b.player_id[l] = id] ] ]
              ELSE b
    IN  [ b1 EXCEPT !.fenpei = [ some |-> TRUE, v |-> fenpei ] ]

\* A pingju(pingju) that charges the riichi stick before every draw.
BoardPingjuCharging(b, name) == BoardLizhi(b)

\* pingju(pingju)
BoardPingju(b, name) == IF name = "sanjiahe" THEN b ELSE BoardLizhi(b)

\* jieju(paipu)
BoardJieju(b, defen) == [ b EXCEPT !.defen = defen, !.lunban = 0 - 1 ]

\* The board b after the message the game broadcast on its step to g.
Feed(b, g) ==
    CASE g.status = "kaiju" -> BoardKaiju(b, g.qijia)
      [] g.status = "qipai" -> BoardQipai(b, QipaiMsg(g))
      [] g.status \in { "zimo", "gangzimo" } -> BoardZimo(b, g.lunban)
      [] g.status = "dapai" -> BoardDapai(b, g.lunban, g.dapai.star)
      [] g.status = "fulou" -> BoardFulou(b, g.lunban)
      [] g.status = "gang" -> BoardGang(b, g.lunban)
      [] g.status = "hule" -> BoardHule(b, g.fenpei)
      [] g.status = "pingju" -> BoardPingju(b, g.log[Len(g.log)].name)
      [] g.status = "jieju" -> BoardJieju(b, g.defen)
      [] OTHER -> b

(***************************************************************************)
(* SpecBoard: the game of Spec with a Board that is fed every message.     *)
(***************************************************************************)
boardRest == <<rule, shan, last, nGangzimo, nKaigang, nZimo, drv, shoupai, he, nFulou>>

BKaiju ==
    /\ game.status = ""
    /\ \E q \in Qijias : game' = Kaiju(game, q)
    /\ board' = Feed(board, game')
    /\ UNCHANGED boardRest

BReplyKaiju ==
    /\ game.status = "kaiju"
    /\ game' = ReplyKaiju(game)
    /\ board' = Feed(board, game')
    /\ UNCHANGED boardRest

BReplyQipai ==
    /\ game.status = "qipai"
    /\ game.round <= MaxRound
    /\ game' = ReplyQipai(game)
    /\ board' = Feed(board, game')
    /\ UNCHANGED boardRest

BReplyZimo ==
    /\ game.status \in {"zimo", "gangzimo"}
    /\ \E in \in ZimoInputs(game), o \in Orders :
         game' = ReplyZimo(game,
                     ReplyAll(NoReply, o,
                         [ id \in Seats |->
                             IF id = game.player_id[game.lunban]
                             THEN in.r ELSE Empty ]),
                     in.p, in.v)
    /\ board' = Feed(board, game')
    /\ UNCHANGED boardRest

BReplyDapai ==
    /\ game.status = "dapai"
    /\ \E in \in DapaiInputs(game), o \in Orders :
         game' = ReplyDapai(game, ReplyAll(NoReply, o, in.rep),
                            in.v, in.ten, in.nag)
    /\ board' = Feed(board, game')
    /\ UNCHANGED boardRest

BReplyFulou ==
    /\ game.status = "fulou"
    /\ \E p \in Tiles(game), ok \in BOOLEAN, o \in Orders :
         game' = ReplyFulou(game,
                     ReplyAll(NoReply, o,
                         [ id \in Seats |->
                             IF id = game.player_id[game.lunban] /\ ok
                             THEN DapaiMsg(TRUE, p, FALSE, FALSE)
                             ELSE Empty ]),
                     p)
    /\ board' = Feed(board, game')
    /\ UNCHANGED boardRest

BReplyGang ==
    /\ game.status = "gang"
    /\ \E in \in GangInputs(game), o \in Orders :
         game' = ReplyGang(game, ReplyAll(NoReply, o, in.rep), in.v)
    /\ board' = Feed(board, game')
    /\ UNCHANGED boardRest

BReplyHule ==
    /\ game.status = "hule"
    /\ game' = ReplyHule(game, V0)
    /\ board' = Feed(board, game')
    /\ UNCHANGED boardRest

BReplyPingju ==
    /\ game.status = "pingju"
    /\ game' = ReplyPingju(game)
    /\ board' = Feed(board, game')
    /\ UNCHANGED boardRest

NextBoard ==
    \/ BKaiju \/ BReplyKaiju \/ BReplyQipai \/ BReplyZimo \/ BReplyDapai
    \/ BReplyFulou \/ BReplyGang \/ BReplyHule \/ BReplyPingju

SpecBoard == InitGame /\ [][NextBoard]_vars

\* C39: a Board fed the messages of a game in the order they are sent
\* mirrors the game: after every zimo, gangzimo, fulou and pingju message
\* its scores and its pool of riichi sticks are the game's (the stick of a
\* declaration is charged once the discard has passed without ron: not
\* when it is ronned, and not before sanjiahe), and its live count is the
\* wall's.  The wall of the model is dealt short, so the two live counts
\* are compared by the tiles drawn since the deal.
C39_Mirror ==
    /\ BoardShanPaishu = Paishu(ShanNew(rule)) - 13 * 4
    /\ game.status \in { "zimo", "gangzimo", "fulou", "pingju" } =>
         /\ board.defen = game.defen
         /\ board.lizhibang = game.lizhibang
         /\ BoardShanPaishu - board.paishu
              = Paishu(ShanDealt) - GPaishu(game)
    /\ game.status = "hule" => board.lizhibang = game.lizhibang

\* three seats ron a riichi declaration: the round is drawn with the
\* declaration still pending on the board and no stick charged
C39_Witness ==
    /\ game.status = "pingju"
    /\ game.log[Len(game.log)].name = "sanjiahe"
    /\ board.lizhi
    /\ board.lizhibang = game.lizhibang
    /\ board.defen = game.defen

(***************************************************************************)
(* The hand after a call that throws (SpecHand).                           *)
(***************************************************************************)
\* The call with result r left the hand as it was, or did not throw.
Untouched(r) == r.thrown => Caught(r) = shoupai

C40_Zimo ==
    \A p \in ZimoTiles, check \in BOOLEAN :
        Untouched(ShoupaiZimo(shoupai, p, check))

C40_Dapai ==
    \A p \in DapaiTiles, check \in BOOLEAN :
        Untouched(ShoupaiDapai(shoupai, p, check))

C40_Fulou ==
    \A m \in FulouMelds, check \in BOOLEAN :
        Untouched(ShoupaiFulou(shoupai, m, check))

C40_Gang ==
    \A m \in GangMelds, check \in BOOLEAN :
        Untouched(ShoupaiGang(shoupai, m, check))

\* C40: a zimo, dapai, fulou or gang call that throws leaves the hand as
\* it was: the concealed counts with the red fives, the hidden count, the
\* melds, the draw marker and the riichi flag.
C40_AsStated == C40_Zimo /\ C40_Dapai /\ C40_Fulou /\ C40_Gang

====
